---- MODULE Spec2Model ----
(***************************************************************************)
(* Verification model of the MAPS-core auto-analysis pipeline:             *)
(*   keyword_normalizer.py  (KeywordNormalizer)                            *)
(*   keyword_search.py      (QueryParser, KeywordSearchEngine)             *)
(*   parser.py              (detect_parse_case, parse_radiology_sample)    *)
(*   xml_keyword_extractor.py (XMLKeywordExtractor)                        *)
(*   auto_analysis.py       (AutoAnalyzer)                                 *)
(*                                                                         *)
(* Python str values are modelled as sequences of one-character strings,   *)
(* so that lower(), strip(), split() and the substring test are computed.  *)
(***************************************************************************)
EXTENDS Integers, Sequences, FiniteSets, TLC

VARIABLES
    \* KeywordNormalizer (keyword_normalizer.py)
    medical_terms,      \* the loaded dictionary (self.medical_terms)
    synonym_map,        \* self.synonym_map
    abbreviation_map,   \* self.abbreviation_map
    multi_word_set,     \* self.multi_word_set
    norm_call,          \* the last normalize() call: argument and return value
    \* QueryParser (keyword_search.py)
    query_call,         \* the last QueryParser.parse() call
    \* KeywordSearchEngine (keyword_search.py)
    keyword_index,      \* self.keyword_index, in insertion order of its keys
    search_call,        \* the search() call whose response the caller holds
    \* AutoAnalyzer (auto_analysis.py)
    conf_call,          \* the last _calculate_confidence() call
    \* the XML files on disk and the calls made on them
    files,              \* path -> file content
    doc_call,           \* the last single-document call: operation, path, outcome
    batch               \* the analyze_batch() call in progress: its locals

vars == <<medical_terms, synonym_map, abbreviation_map, multi_word_set, norm_call, query_call,
          keyword_index, search_call, conf_call, files, doc_call, batch>>

normVars  == <<medical_terms, synonym_map, abbreviation_map, multi_word_set, norm_call>>
queryVars == <<query_call>>
searchVars == <<keyword_index, search_call>>
confVars == <<conf_call>>
docVars == <<files, doc_call, batch>>

\* Python None; a tuple, so that it compares with str values
None == << "None" >>

(***************************************************************************)
(* str primitives                                                          *)
(***************************************************************************)
Whitespace == {" "}

UpperChars == <<"A", "B", "C", "D", "E", "F", "G", "H", "I", "J", "K", "L", "M", "N", "O", "P", "Q", "R", "S", "T", "U", "V", "W", "X", "Y", "Z">>
LowerChars == <<"a", "b", "c", "d", "e", "f", "g", "h", "i", "j", "k", "l", "m", "n", "o", "p", "q", "r", "s", "t", "u", "v", "w", "x", "y", "z">>

\* str.lower() on one character
LowerChar(c) ==
    IF \E i \in 1..Len(UpperChars) : UpperChars[i] = c
    THEN LowerChars[CHOOSE i \in 1..Len(UpperChars) : UpperChars[i] = c]
    ELSE c

\* str.lower()
Lower(s) == [i \in 1..Len(s) |-> LowerChar(s[i])]

RECURSIVE LStrip(_)
LStrip(s) ==
    IF s # <<>> /\ Head(s) \in Whitespace THEN LStrip(Tail(s)) ELSE s

RECURSIVE RStrip(_)
RStrip(s) ==
    IF s # <<>> /\ s[Len(s)] \in Whitespace
    THEN RStrip(SubSeq(s, 1, Len(s) - 1))
    ELSE s

\* str.strip()
Strip(s) == RStrip(LStrip(s))

\* the Python test  `sub in s`  on two str values
Contains(s, sub) ==
    \E i \in 0..(Len(s) - Len(sub)) : SubSeq(s, i + 1, i + Len(sub)) = sub

\* dict[k] = v on a dict modelled as a function
DictPut(d, k, v) == [x \in (DOMAIN d) \cup {k} |-> IF x = k THEN v ELSE d[x]]

EmptyDict == [x \in {} |-> None]

(***************************************************************************)
(* KeywordNormalizer._build_lookup_maps                                    *)
(* medical_terms.synonyms is a sequence of groups [canon, syns] in the     *)
(* order of the JSON object; abbreviations a sequence of [abbr, full].     *)
(***************************************************************************)
RECURSIVE PutSynonyms(_, _, _)
PutSynonyms(m, syns, canonical) ==
    IF syns = <<>> THEN m
    ELSE PutSynonyms(DictPut(m, Lower(Head(syns)), Lower(canonical)),
                     Tail(syns), canonical)

RECURSIVE BuildSynonymMap(_, _)
BuildSynonymMap(m, groups) ==
    IF groups = <<>> THEN m
    ELSE LET g  == Head(groups)
             m1 == DictPut(m, Lower(g.canon), Lower(g.canon))
         IN  BuildSynonymMap(PutSynonyms(m1, g.syns, g.canon), Tail(groups))

RECURSIVE BuildAbbreviationMap(_, _)
BuildAbbreviationMap(m, abbrs) ==
    IF abbrs = <<>> THEN m
    ELSE BuildAbbreviationMap(
             DictPut(m, Lower(Head(abbrs).abbr), Lower(Head(abbrs).full)),
             Tail(abbrs))

\* KeywordNormalizer.normalize(keyword, expand_abbreviations)
normalize(keyword, expand_abbreviations) ==
    LET keyword_lower == Strip(Lower(keyword))
        expanded == IF expand_abbreviations
                       /\ keyword_lower \in DOMAIN abbreviation_map
                    THEN abbreviation_map[keyword_lower]
                    ELSE keyword_lower
    IN  IF expanded \in DOMAIN synonym_map
        THEN synonym_map[expanded]
        ELSE expanded

(***************************************************************************)
(* Bounded dictionaries and terms                                          *)
(***************************************************************************)
MaxGroups == 2      \* synonym groups in a dictionary
MaxSyns   == 1      \* surface forms in one synonym group
MaxAbbrs  == 1      \* entries of the abbreviation map

Words == { <<"c", "t">>, <<"C", "T", " ">>, <<"a">>, <<"b">> }

SeqsUpTo(S, n) == UNION { [1..k -> S] : k \in 0..n }

\* keys of a JSON object are pairwise distinct
DistinctBy(seq, key(_)) ==
    \A i, j \in 1..Len(seq) : i # j => key(seq[i]) # key(seq[j])

CanonOf(g) == g.canon
AbbrOf(a)  == a.abbr

\* the dictionaries over the words W with at most g groups of at most s
\* surface forms, and at most a abbreviations
DictsOver(W, g, s, a) ==
    { [synonyms |-> sg, abbreviations |-> ab] :
        sg \in { x \in SeqsUpTo([canon : W, syns : SeqsUpTo(W, s)], g) :
                    DistinctBy(x, CanonOf) },
        ab \in { x \in SeqsUpTo([abbr : W, full : W], a) : DistinctBy(x, AbbrOf) } }

Dictionaries == DictsOver(Words, MaxGroups, MaxSyns, MaxAbbrs)

NoCall == [done |-> FALSE]

\* self.medical_terms.get('multi_word_terms', [])
MultiWordTerms(d) ==
    IF "multi_word_terms" \in DOMAIN d THEN d.multi_word_terms ELSE <<>>

\* self.multi_word_set
BuildMultiWordSet(d) ==
    { Lower(MultiWordTerms(d)[i]) : i \in 1..Len(MultiWordTerms(d)) }

\* KeywordNormalizer.__init__ : load the dictionary and build the maps
NormalizerInit(d) ==
    /\ medical_terms = d
    /\ synonym_map = BuildSynonymMap(EmptyDict, d.synonyms)
    /\ abbreviation_map = BuildAbbreviationMap(EmptyDict, d.abbreviations)
    /\ multi_word_set = BuildMultiWordSet(d)

\* the dictionary file is missing: _load_medical_terms falls back to empty sections
EmptyTerms == [synonyms |-> <<>>, abbreviations |-> <<>>]

NormIdle  == NormalizerInit(EmptyTerms) /\ norm_call = NoCall
QueryIdle == query_call = NoCall
SearchIdle == keyword_index = <<>> /\ search_call = NoCall
ConfIdle == conf_call = NoCall
NoBatch == [pc |-> "idle"]

DocIdle == files = EmptyDict /\ doc_call = NoCall /\ batch = NoBatch

InitNorm ==
    /\ \E d \in Dictionaries : NormalizerInit(d)
    /\ norm_call = NoCall
    /\ QueryIdle
    /\ SearchIdle
    /\ ConfIdle
    /\ DocIdle

\* a caller invokes normalize(t)
Normalize(t) ==
    /\ norm_call' = [done |-> TRUE, arg |-> t, ret |-> normalize(t, TRUE)]
    /\ UNCHANGED <<medical_terms, synonym_map, abbreviation_map, multi_word_set>>
    /\ UNCHANGED <<queryVars, searchVars, confVars, docVars>>

\* a caller feeds the last result back into normalize
NormalizeAgain ==
    /\ norm_call.done
    /\ norm_call.ret # norm_call.arg
    /\ Normalize(norm_call.ret)

NextNorm ==
    \/ \E t \in Words : Normalize(t)
    \/ NormalizeAgain

SpecNorm == InitNorm /\ [][NextNorm]_vars

\* C4: normalize is idempotent: for every loaded dictionary and every term t,
\* normalize(normalize(t)) = normalize(t).
C4_NormalizeIdempotent ==
    norm_call.done => normalize(norm_call.ret, TRUE) = norm_call.ret

(***************************************************************************)
(* QueryParser (keyword_search.py)                                         *)
(***************************************************************************)
AND_WORD == <<"a", "n", "d">>
OR_WORD  == <<"o", "r">>

\* length of the run of whitespace of s that starts at position i
RECURSIVE WsRun(_, _)
WsRun(s, i) ==
    IF i <= Len(s) /\ s[i] \in Whitespace THEN 1 + WsRun(s, i + 1) ELSE 0

\* re match of  \s+WORD\s+  (IGNORECASE) anchored at position i of s:
\* the position just after the match, or 0 when there is none.  Both \s+
\* are greedy; giving back whitespace cannot help since WORD has none.
MatchAt(s, i, word) ==
    LET w1 == WsRun(s, i)
        j  == i + w1
        k  == j + Len(word)
        w2 == WsRun(s, k)
    IN  IF w1 >= 1 /\ k - 1 <= Len(s)
           /\ Lower(SubSeq(s, j, k - 1)) = word /\ w2 >= 1
        THEN k + w2
        ELSE 0

\* pattern.search(s): scan for the leftmost match
RECURSIVE SearchFrom(_, _, _)
SearchFrom(s, i, word) ==
    IF i > Len(s) THEN 0
    ELSE IF MatchAt(s, i, word) # 0 THEN i
    ELSE SearchFrom(s, i + 1, word)

re_search(s, word) == SearchFrom(s, 1, word) # 0

\* pattern.split(s): the pieces between successive leftmost matches
RECURSIVE SplitFrom(_, _, _)
SplitFrom(s, from, word) ==
    LET p == SearchFrom(s, from, word)
    IN  IF p = 0 THEN << SubSeq(s, from, Len(s)) >>
        ELSE << SubSeq(s, from, p - 1) >> \o SplitFrom(s, MatchAt(s, p, word), word)

re_split(s, word) == SplitFrom(s, 1, word)

\* str.split(): maximal runs of non-whitespace
RECURSIVE WordEnd(_, _)
WordEnd(s, i) ==
    IF i <= Len(s) /\ s[i] \notin Whitespace THEN WordEnd(s, i + 1) ELSE i

RECURSIVE SplitWs(_, _)
SplitWs(s, i) ==
    IF i > Len(s) THEN <<>>
    ELSE IF s[i] \in Whitespace THEN SplitWs(s, i + 1)
    ELSE << SubSeq(s, i, WordEnd(s, i) - 1) >> \o SplitWs(s, WordEnd(s, i))

str_split(s) == SplitWs(s, 1)

\* [term.strip().lower() for term in terms if term.strip()]
RECURSIVE CleanTerms(_)
CleanTerms(terms) ==
    IF terms = <<>> THEN <<>>
    ELSE (IF Strip(Head(terms)) # <<>>
          THEN << Lower(Strip(Head(terms))) >> ELSE <<>>)
         \o CleanTerms(Tail(terms))

\* parse with the OR pattern tried before the AND pattern
parse_OrFirst(raw) ==
    LET query == Strip(raw)
    IN  IF re_search(query, OR_WORD)
        THEN [operator |-> "OR", terms |-> CleanTerms(re_split(query, OR_WORD))]
        ELSE IF re_search(query, AND_WORD)
        THEN [operator |-> "AND", terms |-> CleanTerms(re_split(query, AND_WORD))]
        ELSE IF Len(str_split(query)) > 1
        THEN [operator |-> "AND", terms |-> CleanTerms(str_split(query))]
        ELSE [operator |-> "SINGLE", terms |-> << Lower(query) >>]

\* QueryParser.parse
parse(raw) ==
    LET query == Strip(raw)
    IN  IF re_search(query, AND_WORD)
        THEN [operator |-> "AND", terms |-> CleanTerms(re_split(query, AND_WORD))]
        ELSE IF re_search(query, OR_WORD)
        THEN [operator |-> "OR", terms |-> CleanTerms(re_split(query, OR_WORD))]
        ELSE IF Len(str_split(query)) > 1
        THEN [operator |-> "AND", terms |-> CleanTerms(str_split(query))]
        ELSE [operator |-> "SINGLE", terms |-> << Lower(query) >>]

(***************************************************************************)
(* Bounded queries: concatenations of at most MaxLex lexemes               *)
(***************************************************************************)
MaxLex == 5

Lexemes == { <<"a">>, <<"B">>, <<" ">>,
             <<" ", "A", "n", "d", " ">>, <<" ", "O", "R", " ">>,
             <<"a", "n", "d">>, <<"o", "r">> }

RECURSIVE Flatten(_)
Flatten(ss) == IF ss = <<>> THEN <<>> ELSE Head(ss) \o Flatten(Tail(ss))

Queries == { Flatten(l) : l \in SeqsUpTo(Lexemes, MaxLex) }

\* a caller is about to invoke QueryParser.parse(q)
InitQuery ==
    /\ NormIdle
    /\ SearchIdle
    /\ ConfIdle
    /\ DocIdle
    /\ \E q \in Queries : query_call = [done |-> FALSE, arg |-> q]

\* QueryParser.parse(q) returns
Parse ==
    /\ ~ query_call.done
    /\ "arg" \in DOMAIN query_call
    /\ query_call' = [done |-> TRUE, arg |-> query_call.arg,
                       ret |-> parse(query_call.arg)]
    /\ UNCHANGED <<normVars, searchVars, confVars, docVars>>

NextQuery == Parse

SpecQuery == InitQuery /\ [][NextQuery]_vars

(***************************************************************************)
(* C9, stated on the whitespace-separated tokens of the trimmed query.     *)
(***************************************************************************)
TokStarts(q) ==
    { i \in 1..Len(q) : q[i] \notin Whitespace /\ (i = 1 \/ q[i - 1] \in Whitespace) }

TokEnd(q, i) ==
    CHOOSE j \in i..Len(q) :
        /\ \A k \in i..j : q[k] \notin Whitespace
        /\ (j = Len(q) \/ q[j + 1] \in Whitespace)

\* the k-th smallest element of a set of integers
Nth(S, k) == CHOOSE x \in S : Cardinality({ y \in S : y < x }) = k - 1

TokText(q, k) ==
    LET st == Nth(TokStarts(q), k) IN Lower(SubSeq(q, st, TokEnd(q, st)))

\* token k is the word with whitespace on both sides
IsWordTok(q, word, k) ==
    /\ 1 < k /\ k < Cardinality(TokStarts(q))
    /\ TokText(q, k) = word

\* token k acts as a separator: the whitespace before it was not already
\* taken by a separator ending just before it
RECURSIVE IsSepTok(_, _, _)
IsSepTok(q, word, k) ==
    /\ IsWordTok(q, word, k)
    /\ ~ IsSepTok(q, word, k - 1)

\* the text from token a to token b, lowercased
Span(q, a, b) ==
    Lower(SubSeq(q, Nth(TokStarts(q), a), TokEnd(q, Nth(TokStarts(q), b))))

\* the pieces between separator tokens, in order
PiecesBetween(q, word) ==
    LET n      == Cardinality(TokStarts(q))
        seps   == { k \in 1..n : IsSepTok(q, word, k) }
        firsts == { a \in (1..n) \ seps : a = 1 \/ (a - 1) \in seps }
        lastOf(a) == CHOOSE b \in a..n :
                        /\ \A k \in a..b : k \notin seps
                        /\ (b = n \/ (b + 1) \in seps)
    IN  [ i \in 1..Cardinality(firsts) |->
            Span(q, Nth(firsts, i), lastOf(Nth(firsts, i))) ]

ExpectedParse(raw) ==
    LET q == Strip(raw)
        n == Cardinality(TokStarts(q))
    IN  IF \E k \in 1..n : IsWordTok(q, AND_WORD, k)
        THEN [operator |-> "AND", terms |-> PiecesBetween(q, AND_WORD)]
        ELSE IF \E k \in 1..n : IsWordTok(q, OR_WORD, k)
        THEN [operator |-> "OR", terms |-> PiecesBetween(q, OR_WORD)]
        ELSE IF n > 1
        THEN [operator |-> "AND", terms |-> [k \in 1..n |-> TokText(q, k)]]
        ELSE [operator |-> "SINGLE", terms |-> << Lower(q) >>]

\* C9: parse returns AND with the lowercased, trimmed pieces when the trimmed
\* query has the token AND between whitespace (even if OR occurs too),
\* otherwise OR with the pieces when it has the token OR, otherwise AND with
\* the whitespace-separated tokens when there are several, and SINGLE with
\* the one lowercased term when there is exactly one token.
C9_ParseOperatorAndTerms ==
    (query_call.done /\ TokStarts(Strip(query_call.arg)) # {})
        => query_call.ret = ExpectedParse(query_call.arg)

\* a parsed query that holds both the AND and the OR token
C9_Witness ==
    /\ query_call.done
    /\ \E k \in 1..Len(query_call.arg) : IsWordTok(Strip(query_call.arg), AND_WORD, k)
    /\ \E k \in 1..Len(query_call.arg) : IsWordTok(Strip(query_call.arg), OR_WORD, k)
    /\ query_call.ret.operator = "AND"
    /\ Len(query_call.ret.terms) = 2

(***************************************************************************)
(* KeywordNormalizer.get_all_forms                                         *)
(***************************************************************************)
\* the first synonym group whose lowercased canonical term is `canonical`
RECURSIVE FirstGroup(_, _)
FirstGroup(groups, canonical) ==
    IF groups = <<>> THEN <<>>
    ELSE IF Lower(Head(groups).canon) = canonical THEN << Head(groups) >>
    ELSE FirstGroup(Tail(groups), canonical)

\* the forms without the canonical form they start from
get_all_forms_SynonymsOnly(keyword) ==
    LET canonical == normalize(keyword, TRUE)
        grp == FirstGroup(medical_terms.synonyms, canonical)
    IN  IF grp = <<>> THEN {}
        ELSE { Lower(grp[1].syns[i]) : i \in 1..Len(grp[1].syns) }

get_all_forms(keyword) ==
    LET canonical == normalize(keyword, TRUE)
        grp == FirstGroup(medical_terms.synonyms, canonical)
    IN  {canonical} \cup
        (IF grp = <<>> THEN {}
         ELSE { Lower(grp[1].syns[i]) : i \in 1..Len(grp[1].syns) })

(***************************************************************************)
(* KeywordSearchEngine                                                     *)
(* keyword_index is a sequence of [normalized, forms] in the insertion     *)
(* order of the dict keys; forms is the set of original texts.             *)
(***************************************************************************)
IndexKeys(idx) == { idx[i].normalized : i \in 1..Len(idx) }

\* the set stored under the key replaced by the new text instead of extended
IndexAdd_Replace(idx, normalized, text) ==
    IF normalized \in IndexKeys(idx)
    THEN [i \in 1..Len(idx) |->
            IF idx[i].normalized = normalized
            THEN [idx[i] EXCEPT !.forms = {text}]
            ELSE idx[i]]
    ELSE Append(idx, [normalized |-> normalized, forms |-> {text}])

\* self.keyword_index[normalized].add(text)
IndexAdd(idx, normalized, text) ==
    IF normalized \in IndexKeys(idx)
    THEN [i \in 1..Len(idx) |->
            IF idx[i].normalized = normalized
            THEN [idx[i] EXCEPT !.forms = @ \cup {text}]
            ELSE idx[i]]
    ELSE Append(idx, [normalized |-> normalized, forms |-> {text}])

\* the key an entry is filed under, taken as the lowercased text without
\* the lookup in the normalizer's maps
index_key_LowerOnly(text) == Lower(Strip(text))

\* normalized = self.normalizer.normalize(text)
index_key(text) == normalize(text, TRUE)

\* KeywordSearchEngine.index_keywords
RECURSIVE index_keywords(_, _)
index_keywords(idx, keywords) ==
    IF keywords = <<>> THEN idx
    ELSE index_keywords(
             IndexAdd(idx, index_key(Head(keywords).text), Head(keywords).text),
             Tail(keywords))

\* the orders in which a set may be iterated
Perms(S) ==
    { f \in [1..Cardinality(S) -> S] :
        \A i, j \in 1..Cardinality(S) : i # j => f[i] # f[j] }

\* relevance scores are kept as fractions [num, den]
Frac(n, d) == [num |-> n, den |-> d]
FracGeq(a, b) == a.num * b.den >= b.num * a.den

\* expanded_terms without the query term itself when synonyms are expanded
RECURSIVE ExpandTerms_SynonymsOnly(_, _)
ExpandTerms_SynonymsOnly(terms, expand_synonyms) ==
    IF terms = <<>> THEN {}
    ELSE (IF expand_synonyms THEN get_all_forms(Head(terms)) ELSE {Head(terms)})
         \cup ExpandTerms_SynonymsOnly(Tail(terms), expand_synonyms)

\* expanded_terms of search()
RECURSIVE ExpandTerms(_, _)
ExpandTerms(terms, expand_synonyms) ==
    IF terms = <<>> THEN {}
    ELSE {Head(terms)}
         \cup (IF expand_synonyms THEN get_all_forms(Head(terms)) ELSE {})
         \cup ExpandTerms(Tail(terms), expand_synonyms)

\* the test on the canonical key alone, the stored surface forms left out
TermHits_KeyOnly(entry, term) ==
    Contains(entry.normalized, term)

\* term in normalized or any(term in form for form in original_forms)
TermHits(entry, term) ==
    \/ Contains(entry.normalized, term)
    \/ \E form \in entry.forms : Contains(form, term)

\* matched_terms with the OR loop running on after its first hit
MatchedTerms_AllHits(operator, eorder, entry) ==
    IF operator = "AND"
    THEN IF \A i \in 1..Len(eorder) : TermHits(entry, eorder[i])
         THEN eorder ELSE <<>>
    ELSE LET RECURSIVE Hits(_)
             Hits(i) == IF i > Len(eorder) THEN <<>>
                        ELSE (IF TermHits(entry, eorder[i]) THEN << eorder[i] >> ELSE <<>>)
                             \o Hits(i + 1)
         IN  Hits(1)

\* matched_terms for one index entry; eorder is the iteration order of
\* expanded_terms.  The empty sequence stands for matches = False.
MatchedTerms(operator, eorder, entry) ==
    IF operator = "AND"
    THEN IF \A i \in 1..Len(eorder) : TermHits(entry, eorder[i])
         THEN eorder ELSE <<>>
    ELSE LET hits == { i \in 1..Len(eorder) : TermHits(entry, eorder[i]) }
         IN  IF hits = {} THEN <<>>
             ELSE << eorder[CHOOSE i \in hits : \A j \in hits : i <= j] >>

Max(a, b) == IF a >= b THEN a ELSE b

\* one result per matching entry instead of one per stored surface form
EntryResults_OnePerEntry(operator, eorder, entry, min_relevance) ==
    LET matched   == MatchedTerms(operator, eorder, entry)
        relevance == Frac(Len(matched), Max(Len(eorder), 1))
    IN  IF matched # <<>> /\ FracGeq(relevance, min_relevance)
        THEN { << [keyword_text |-> f,
                   normalized_form |-> entry.normalized,
                   category |-> "keyword",
                   relevance_score |-> relevance,
                   matched_query_terms |-> matched] >> : f \in entry.forms }
        ELSE { <<>> }

\* the results appended for one index entry, for each iteration order of
\* its set of original forms
EntryResults(operator, eorder, entry, min_relevance) ==
    LET matched   == MatchedTerms(operator, eorder, entry)
        matches   == IF operator = "AND"
                     THEN \A i \in 1..Len(eorder) : TermHits(entry, eorder[i])
                     ELSE matched # <<>>
        relevance == Frac(Len(matched), Max(Len(eorder), 1))
    IN  IF matches /\ FracGeq(relevance, min_relevance)
        THEN { [i \in 1..Len(fo) |->
                  [keyword_text |-> fo[i],
                   normalized_form |-> entry.normalized,
                   category |-> "keyword",
                   relevance_score |-> relevance,
                   matched_query_terms |-> matched]] : fo \in Perms(entry.forms) }
        ELSE { <<>> }

RECURSIVE ResultsFrom(_, _, _, _, _)
ResultsFrom(idx, i, operator, eorder, min_relevance) ==
    IF i > Len(idx) THEN { <<>> }
    ELSE { r \o rest :
             r \in EntryResults(operator, eorder, idx[i], min_relevance),
             rest \in ResultsFrom(idx, i + 1, operator, eorder, min_relevance) }

\* results.sort(key=relevance_score, reverse=True): stable, descending
RECURSIVE InsertByRelevance(_, _)
InsertByRelevance(sorted, r) ==
    IF sorted = <<>> THEN << r >>
    ELSE IF FracGeq(sorted[Len(sorted)].relevance_score, r.relevance_score)
    THEN Append(sorted, r)
    ELSE Append(InsertByRelevance(SubSeq(sorted, 1, Len(sorted) - 1), r),
                sorted[Len(sorted)])

RECURSIVE SortByRelevance(_)
SortByRelevance(rs) ==
    IF rs = <<>> THEN <<>>
    ELSE InsertByRelevance(SortByRelevance(SubSeq(rs, 1, Len(rs) - 1)), rs[Len(rs)])

\* KeywordSearchEngine.search: the responses it can return; they differ only
\* in the iteration order of the sets involved
search(idx, query, expand_synonyms, min_relevance) ==
    LET parsed   == parse(query)
        expanded == ExpandTerms(parsed.terms, expand_synonyms)
    IN  UNION { { [query |-> query,
                   total_results |-> Len(rs),
                   results |-> SortByRelevance(rs),
                   expanded_query_terms |-> eorder] :
                    rs \in ResultsFrom(idx, 1, parsed.operator, eorder, min_relevance) } :
                eorder \in Perms(expanded) }

(***************************************************************************)
(* Bounded search scenarios                                                *)
(***************************************************************************)
MaxSearchGroups == 1    \* synonym groups of the search dictionary
MaxSearchSyns   == 1    \* surface forms in a group
MaxSearchAbbrs  == 1    \* abbreviations
MaxIndexBatch   == 2    \* entries passed to one index_keywords call

SearchWords == { <<"l", "u">>, <<"p", "u">> }

SearchDictionaries == DictsOver(SearchWords, MaxSearchGroups, MaxSearchSyns, MaxSearchAbbrs)

IndexTexts == { <<"l", "u">>, <<"P", "u">>, <<"x", "l", "u">> }

IndexEntries == [text : IndexTexts, category : {"anatomy"}, context : {"ctx"}]

SearchQueries == { <<>>, <<"l", "u">>, <<"L", "U", " ">>, <<"p", "u">>, <<"x">>,
                   <<"l", "u", " ", "p", "u">>,
                   <<"l", "u", " ", "O", "R", " ", "x">> }

MinRelevances == { Frac(0, 1), Frac(1, 2), Frac(1, 1) }

DefaultMinRelevance == Frac(0, 1)

InitSearch ==
    /\ \E d \in SearchDictionaries : NormalizerInit(d)
    /\ norm_call = NoCall
    /\ QueryIdle
    /\ SearchIdle
    /\ ConfIdle
    /\ DocIdle

\* a caller invokes index_keywords(kws)
IndexKeywords(kws) ==
    /\ search_call = NoCall
    /\ keyword_index' = index_keywords(keyword_index, kws)
    /\ UNCHANGED <<normVars, queryVars, confVars, docVars, search_call>>

\* a caller invokes search(q, e, m) and receives the response
Search(q, e, m) ==
    /\ search_call = NoCall
    /\ \E resp \in search(keyword_index, q, e, m) :
          search_call' = [done |-> TRUE, query |-> q, expand_synonyms |-> e,
                          min_relevance |-> m, response |-> resp]
    /\ UNCHANGED <<normVars, queryVars, confVars, docVars, keyword_index>>

\* the caller drops the response
SearchReturn ==
    /\ search_call # NoCall
    /\ search_call' = NoCall
    /\ UNCHANGED <<normVars, queryVars, confVars, docVars, keyword_index>>

NextSearch ==
    \/ \E kws \in SeqsUpTo(IndexEntries, MaxIndexBatch) \ {<<>>} : IndexKeywords(kws)
    \/ \E q \in SearchQueries, e \in BOOLEAN, m \in MinRelevances : Search(q, e, m)
    \/ SearchReturn

SpecSearch == InitSearch /\ [][NextSearch]_vars

\* the (keyword_text, normalized_form) pairs of a response
ResultPairs(resp) ==
    { <<resp.results[i].keyword_text, resp.results[i].normalized_form>> :
        i \in 1..Len(resp.results) }

IsSingleTerm(q) == Cardinality(TokStarts(Strip(q))) = 1

IndexEntryOf(idx, key) == idx[CHOOSE i \in 1..Len(idx) : idx[i].normalized = key]

\* C10: for every index and single-term query q, search(q, expandSynonyms=false)
\* returns only results whose canonical key or one of whose stored surface
\* forms contains the lowercased q, and each of them is also returned by
\* search(q, expandSynonyms=true) on the same index.
C10_PlainSearchLiteralAndSubsumed ==
    (/\ search_call # NoCall
     /\ IsSingleTerm(search_call.query)
     /\ ~ search_call.expand_synonyms
     /\ search_call.min_relevance = DefaultMinRelevance)
    => LET resp == search_call.response
           q    == Lower(Strip(search_call.query))
       IN  /\ \A i \in 1..Len(resp.results) :
                 LET key == resp.results[i].normalized_form
                 IN  /\ key \in IndexKeys(keyword_index)
                     /\ \/ Contains(key, q)
                        \/ \E f \in IndexEntryOf(keyword_index, key).forms :
                              Contains(f, q)
           /\ \A other \in search(keyword_index, search_call.query, TRUE,
                                   DefaultMinRelevance) :
                 ResultPairs(resp) \subseteq ResultPairs(other)

\* a plain search that found something, on an index where the expanded
\* search returns strictly more
C10_Witness ==
    /\ search_call # NoCall
    /\ IsSingleTerm(search_call.query)
    /\ ~ search_call.expand_synonyms
    /\ search_call.min_relevance = DefaultMinRelevance
    /\ search_call.response.results # <<>>
    /\ \E other \in search(keyword_index, search_call.query, TRUE, DefaultMinRelevance) :
          ResultPairs(other) \ ResultPairs(search_call.response) # {}

(***************************************************************************)
(* AutoAnalyzer._calculate_confidence                                      *)
(* A confidence is kept in hundredths (0.5 is 50).                         *)
(***************************************************************************)
Min(a, b) == IF a <= b THEN a ELSE b
Abs(x) == IF x >= 0 THEN x ELSE 0 - x

\* round(num/den hundredths, 2): the nearest hundredth.  The sum is a binary
\* float, so a value exactly half way between two hundredths may come out
\* on either side (0.305 -> 0.3 but 0.385 -> 0.39).
Round2(num, den) ==
    { h \in 0..200 : 2 * Abs(h * den - num) <= den }

\* the truth value of  kw.normalized_form  in  `if kw.normalized_form`
Truthy(form) == form # None /\ form # <<>>

\* the score without the cap of the category score at 1.0
_calculate_confidence_NoCap(keywords) ==
    IF keywords = <<>> THEN {50}
    ELSE LET categories == { keywords[i].category : i \in 1..Len(keywords) }
             normalized_count ==
                 Cardinality({ i \in 1..Len(keywords) : Truthy(keywords[i].normalized_form) })
         IN  Round2(8 * Cardinality(categories) * Len(keywords) + 60 * normalized_count,
                    Len(keywords))

_calculate_confidence(keywords) ==
    IF keywords = <<>> THEN {50}
    ELSE LET categories == { keywords[i].category : i \in 1..Len(keywords) }
             \* category_score = min(len(categories) / 5.0, 1.0), in fifths
             category_score == Min(Cardinality(categories), 5)
             normalized_count ==
                 Cardinality({ i \in 1..Len(keywords) : Truthy(keywords[i].normalized_form) })
             \* 100 * (category_score/5 * 0.4 + normalized_count/len * 0.6)
         IN  Round2(8 * category_score * Len(keywords) + 60 * normalized_count,
                    Len(keywords))

(***************************************************************************)
(* Bounded keyword lists for _calculate_confidence                         *)
(***************************************************************************)
MaxKw == 8

ConfCategories == << "header", "characteristic", "characteristic_semantic",
                     "roi", "session", "finding" >>

ConfForms == << <<>>, <<"c", "t">> >>

\* keyword kind k: category k \div 2 with normalized form k % 2
KwOfKind(k) ==
    [text |-> <<"c", "t">>,
     category |-> ConfCategories[(k \div Len(ConfForms)) + 1],
     normalized_form |-> ConfForms[(k % Len(ConfForms)) + 1]]

NumKinds == Len(ConfCategories) * Len(ConfForms)

KindOf(kw) ==
    CHOOSE k \in 0..(NumKinds - 1) : KwOfKind(k) = kw

InitConf ==
    /\ NormIdle
    /\ QueryIdle
    /\ SearchIdle
    /\ conf_call = [done |-> FALSE, arg |-> <<>>]
    /\ DocIdle

\* the caller's keyword list grows by one keyword.  Lists are built grouped
\* by kind: the score reads the list only through its set of categories
\* and two counts.
AddKeyword(k) ==
    /\ ~ conf_call.done
    /\ "arg" \in DOMAIN conf_call
    /\ Len(conf_call.arg) < MaxKw
    /\ conf_call.arg # <<>> => k >= KindOf(conf_call.arg[Len(conf_call.arg)])
    /\ conf_call' = [conf_call EXCEPT !.arg = Append(@, KwOfKind(k))]
    /\ UNCHANGED <<normVars, queryVars, searchVars, docVars>>

\* _calculate_confidence(keywords) returns
CalculateConfidence ==
    /\ ~ conf_call.done
    /\ "arg" \in DOMAIN conf_call
    /\ \E c \in _calculate_confidence(conf_call.arg) :
          conf_call' = [done |-> TRUE, arg |-> conf_call.arg, ret |-> c]
    /\ UNCHANGED <<normVars, queryVars, searchVars, docVars>>

NextConf ==
    \/ \E k \in 0..(NumKinds - 1) : AddKeyword(k)
    \/ CalculateConfidence

SpecConf == InitConf /\ [][NextConf]_vars

\* C3: the confidence lies in [0,1] at 2-decimal precision; it is exactly 0.5
\* for the empty keyword sequence, and otherwise
\* round(0.4*min(distinctCategories/5, 1) + 0.6*(non-empty normalized / total), 2).
C3_ConfidenceFormula ==
    conf_call.done =>
        LET kws  == conf_call.arg
            n    == Len(kws)
            cats == Cardinality({ kws[i].category : i \in 1..n })
            nz   == Cardinality({ i \in 1..n : kws[i].normalized_form \notin {None, <<>>} })
            c    == conf_call.ret
        IN  /\ c \in 0..100
            /\ n = 0 => c = 50
            /\ n > 0 =>
                  \* |c/100 - (0.4*min(cats/5,1) + 0.6*nz/n)| <= 0.005, times 1000*n
                  Abs(10 * c * n - (IF cats >= 5 THEN 400 * n ELSE 80 * cats * n)
                                 - 600 * nz) <= 5 * n

\* a list with more than five categories and only part of it normalized
C3_Witness ==
    /\ conf_call.done
    /\ Cardinality({ conf_call.arg[i].category : i \in 1..Len(conf_call.arg) }) > 5
    /\ \E i, j \in 1..Len(conf_call.arg) :
          /\ conf_call.arg[i].normalized_form = <<>>
          /\ conf_call.arg[j].normalized_form # <<>>
    /\ conf_call.ret < 100

(***************************************************************************)
(* XML documents (xml.etree.ElementTree)                                   *)
(* An element is [ns, name, text, kids]; ElementTree writes its tag as     *)
(* "{ns}name", or "name" when ns is empty.  A file is absent, malformed or *)
(* holds a root element.                                                   *)
(***************************************************************************)
El(ns, name, text, kids) == [ns |-> ns, name |-> name, text |-> text, kids |-> kids]

Absent    == [kind |-> "absent"]
Malformed == [kind |-> "malformed"]
XmlFile(root) == [kind |-> "xml", root |-> root]

\* os.path.exists(file_path)
path_exists(path) == path \in DOMAIN files /\ files[path].kind # "absent"

\* the outcome of a call: a returned value or a raised exception
Returned(v) == [raised |-> FALSE, value |-> v]
Raised(exc, msg) == [raised |-> TRUE, exc |-> exc, msg |-> msg]

\* ET.parse(file_path).getroot()
ET_parse(path) ==
    IF ~ path_exists(path)
    THEN Raised("FileNotFoundError", << "No such file or directory: ", path >>)
    ELSE IF files[path].kind = "malformed"
    THEN Raised("ParseError", << "not well-formed" >>)
    ELSE Returned(files[path].root)

\* tag(name) of parse_radiology_sample and detect_parse_case: the root's
\* namespace, taken from its tag by r'\{(.*)\}'
tag(root, name) == [ns |-> root.ns, name |-> name]

HasTag(e, t) == e.ns = t.ns /\ e.name = t.name

\* Element.findall(tag): the direct children with that tag, in document order
findall(e, t) == SelectSeq(e.kids, LAMBDA k : HasTag(k, t))

\* the value None where an Element is expected
NoElement == [ns |-> "", name |-> "None", text |-> None, kids |-> <<>>]

\* Element.find(tag): the first such child, or None
find(e, t) == IF findall(e, t) = <<>> THEN NoElement ELSE findall(e, t)[1]

\* the truth value of  elem is not None and elem.text
HasText(elem) == elem # NoElement /\ elem.text # None /\ elem.text # <<>>

(***************************************************************************)
(* parser.detect_parse_case                                                *)
(***************************************************************************)
\* the LIDC branch with the counts 0 and 1 both taken for a single session
lidc_parse_case_AtMostOne(session_count) ==
    IF session_count <= 1 THEN "LIDC_Single_Session"
    ELSE IF session_count = 2 THEN "LIDC_Multi_Session_2"
    ELSE IF session_count = 3 THEN "LIDC_Multi_Session_3"
    ELSE IF session_count = 4 THEN "LIDC_Multi_Session_4"
    ELSE "LIDC_Multi_Session_" \o ToString(session_count)

\* the branch  if is_lidc
lidc_parse_case(session_count) ==
    IF session_count = 1 THEN "LIDC_Single_Session"
    ELSE IF session_count = 2 THEN "LIDC_Multi_Session_2"
    ELSE IF session_count = 3 THEN "LIDC_Multi_Session_3"
    ELSE IF session_count = 4 THEN "LIDC_Multi_Session_4"
    ELSE "LIDC_Multi_Session_" \o ToString(session_count)

\* the non-LIDC detection with the two tests of the header swapped
non_lidc_parse_case_ModalityFirst(root) ==
    LET header == find(root, tag(root, "ResponseHeader"))
    IN  IF header = NoElement THEN "Unknown"
        ELSE LET has_modality == find(header, tag(root, "Modality")) # NoElement
                 has_date == find(header, tag(root, "DateService")) # NoElement
             IN  IF has_modality /\ has_date THEN "Complete_Attributes"
                 ELSE IF has_modality THEN "Core_Attributes_Only"
                 ELSE "With_Reason_Partial"

\* the non-LIDC format detection
non_lidc_parse_case(root) ==
    LET header == find(root, tag(root, "ResponseHeader"))
    IN  IF header = NoElement THEN "Unknown"
        ELSE LET has_modality == find(header, tag(root, "Modality")) # NoElement
                 has_date == find(header, tag(root, "DateService")) # NoElement
             IN  IF has_modality /\ has_date THEN "Complete_Attributes"
                 ELSE IF has_date THEN "Core_Attributes_Only"
                 ELSE "With_Reason_Partial"

detect_parse_case(path) ==
    LET parsed == ET_parse(path)
    IN  IF parsed.raised THEN parsed
        ELSE
        LET root == parsed.value
            is_lidc == root.name = "LidcReadMessage"
            reading_sessions == findall(root, tag(root, "readingSession"))
            session_count == Len(reading_sessions)
        IN  IF is_lidc
            THEN Returned(lidc_parse_case(session_count))
            ELSE Returned(non_lidc_parse_case(root))

(***************************************************************************)
(* parser.get_expected_attributes_for_case                                 *)
(***************************************************************************)
AllCharacteristics == << "subtlety", "internalStructure", "calcification",
                         "sphericity", "margin", "lobulation", "spiculation",
                         "texture", "malignancy" >>

LidcExpected ==
    [header |-> << "StudyInstanceUID", "SeriesInstanceUID", "DateService", "TimeService" >>,
     characteristics |-> << "subtlety" >>,
     roi |-> << "imageSOP_UID", "xCoord", "yCoord" >>,
     nodule |-> << "noduleID" >>]

expected_attrs ==
    [Complete_Attributes |->
        [header |-> << "StudyInstanceUID", "SeriesInstanceUID", "Modality",
                       "DateService", "TimeService" >>,
         characteristics |-> AllCharacteristics,
         roi |-> << "imageSOP_UID", "xCoord", "yCoord" >>,
         nodule |-> << "noduleID" >>],
     Core_Attributes_Only |->
        [header |-> << "StudyInstanceUID", "SeriesInstanceUID", "DateService" >>,
         characteristics |-> << "subtlety", "malignancy" >>,
         roi |-> << "imageSOP_UID", "xCoord", "yCoord" >>,
         nodule |-> << "noduleID" >>],
     With_Reason_Partial |->
        [header |-> << "StudyInstanceUID", "SeriesInstanceUID" >>,
         characteristics |-> << "subtlety" >>,
         roi |-> << "imageSOP_UID" >>,
         nodule |-> << "noduleID" >>],
     LIDC_Single_Session |-> LidcExpected,
     LIDC_Multi_Session_2 |-> LidcExpected,
     LIDC_Multi_Session_3 |-> LidcExpected,
     LIDC_Multi_Session_4 |-> LidcExpected]

\* the default with the attribute set of With_Reason_Partial
default_expected_Partial ==
    [header |-> << "StudyInstanceUID", "SeriesInstanceUID" >>,
     characteristics |-> << "subtlety" >>,
     roi |-> << "imageSOP_UID" >>,
     nodule |-> << "noduleID" >>]

default_expected ==
    [header |-> << "StudyInstanceUID", "SeriesInstanceUID" >>,
     characteristics |-> <<>>,
     roi |-> << "imageSOP_UID" >>,
     nodule |-> << "noduleID" >>]

get_expected_attributes_for_case(parse_case) ==
    IF parse_case \in DOMAIN expected_attrs
    THEN expected_attrs[parse_case]
    ELSE default_expected

(***************************************************************************)
(* parser.parse_radiology_sample                                           *)
(* A record (one DataFrame row before conversion) is a function from       *)
(* column names to values.                                                 *)
(***************************************************************************)
MISSING == <<"M", "I", "S", "S", "I", "N", "G">>

\* header_values: the loop over expected_attrs["header"]
RECURSIVE HeaderValues(_, _, _, _)
HeaderValues(acc, root, header, fields) ==
    IF fields = <<>> THEN acc
    ELSE LET elem == find(header, tag(root, Head(fields)))
         IN  HeaderValues(
                 DictPut(acc, Head(fields), IF HasText(elem) THEN elem.text ELSE MISSING),
                 root, header, Tail(fields))

\* parser.extract_characteristics
RECURSIVE CharData(_, _, _, _)
CharData(acc, root, characteristics, names) ==
    IF names = <<>> THEN acc
    ELSE LET elem == find(characteristics, tag(root, Head(names)))
         IN  CharData(IF HasText(elem) THEN DictPut(acc, Head(names), elem.text) ELSE acc,
                      root, characteristics, Tail(names))

extract_characteristics(root, nodule_elem) ==
    LET characteristics == find(nodule_elem, tag(root, "characteristics"))
    IN  IF characteristics = NoElement THEN EmptyDict
        ELSE CharData(EmptyDict, root, characteristics, AllCharacteristics)

\* parser.extract_roi_data: one dict per roi child
RoiFields == << "imageSOP_UID", "xCoord", "yCoord" >>

extract_roi_data(root, nodule_elem) ==
    LET rois == findall(nodule_elem, tag(root, "roi"))
    IN  [ i \in 1..Len(rois) |->
            CharData(EmptyDict, root, rois[i], RoiFields) ]

\* dict.update
DictUpdate(d, e) ==
    [ k \in (DOMAIN d) \cup (DOMAIN e) |-> IF k \in DOMAIN e THEN e[k] ELSE d[k] ]

\* the record built for one unblindedReadNodule element
NoduleRecord(header_values, root, nodule_elem) ==
    LET nodule_id == find(nodule_elem, tag(root, "noduleID"))
        r1 == IF HasText(nodule_id)
              THEN DictPut(header_values, "noduleID", nodule_id.text)
              ELSE header_values
        r2 == DictUpdate(r1, extract_characteristics(root, nodule_elem))
    IN  DictPut(r2, "roi_count", Len(extract_roi_data(root, nodule_elem)))

\* the parser without the test of os.path.exists
parse_radiology_sample_NoExistsTest(path) ==
    LET parse_case == detect_parse_case(path)
    IN  IF parse_case.raised THEN parse_case
        ELSE
        LET expected == get_expected_attributes_for_case(parse_case.value)
            parsed == ET_parse(path)
        IN  IF parsed.raised
            THEN Raised("ParseError", << "Malformed XML in ", path, ": " >> \o parsed.msg)
            ELSE
            LET root == parsed.value
                header == find(root, tag(root, "ResponseHeader"))
                header_values ==
                    IF header # NoElement
                    THEN HeaderValues(EmptyDict, root, header, expected.header)
                    ELSE EmptyDict
                unblinded_reads == findall(root, tag(root, "unblindedReadNodule"))
                records == [ i \in 1..Len(unblinded_reads) |->
                               NoduleRecord(header_values, root, unblinded_reads[i]) ]
            IN  Returned(records)

\* parse_radiology_sample: returns the rows of main_df (unblinded_df is
\* always the empty placeholder), or raises
parse_radiology_sample(path) ==
    IF ~ path_exists(path)
    THEN Raised("FileNotFoundError", << "File not found: ", path >>)
    ELSE
    LET parse_case == detect_parse_case(path)
    IN  IF parse_case.raised THEN parse_case
        ELSE
        LET expected == get_expected_attributes_for_case(parse_case.value)
            parsed == ET_parse(path)
        IN  IF parsed.raised
            THEN Raised("ParseError", << "Malformed XML in ", path, ": " >> \o parsed.msg)
            ELSE
            LET root == parsed.value
                header == find(root, tag(root, "ResponseHeader"))
                header_values ==
                    IF header # NoElement
                    THEN HeaderValues(EmptyDict, root, header, expected.header)
                    ELSE EmptyDict
                unblinded_reads == findall(root, tag(root, "unblindedReadNodule"))
                records == [ i \in 1..Len(unblinded_reads) |->
                               NoduleRecord(header_values, root, unblinded_reads[i]) ]
            IN  Returned(records)

(***************************************************************************)
(* pandas: main_df is the sequence of its rows, each a function from the   *)
(* columns it has a value for; a missing cell reads as NaN.                *)
(***************************************************************************)
NaN == << "NaN" >>

Columns(df) == UNION { DOMAIN df[i] : i \in 1..Len(df) }

\* row[col]
Cell(df, i, col) == IF col \in DOMAIN df[i] THEN df[i][col] ELSE NaN

\* row.get(col, default)
RowGet(df, i, col, default) == IF col \in Columns(df) THEN Cell(df, i, col) ELSE default

\* str(n) for a row index n
RECURSIVE IntStr(_)
IntStr(n) ==
    LET d == << "0", "1", "2", "3", "4", "5", "6", "7", "8", "9" >>[(n % 10) + 1]
    IN  IF n < 10 THEN << d >> ELSE Append(IntStr(n \div 10), d)

\* s.split('.')[-1]
RECURSIVE LastDotPart(_)
LastDotPart(s) ==
    IF s = <<>> THEN <<>>
    ELSE IF s[Len(s)] = "." THEN <<>>
    ELSE Append(LastDotPart(SubSeq(s, 1, Len(s) - 1)), s[Len(s)])

(***************************************************************************)
(* XMLKeywordExtractor (xml_keyword_extractor.py)                          *)
(***************************************************************************)
\* self.characteristic_descriptors, one row per (characteristic, code)
characteristic_descriptors ==
    <<
      [name |-> <<"s", "u", "b", "t", "l", "e", "t", "y">>, value |-> <<"1">>,
       descriptors |-> << <<"e", "x", "t", "r", "e", "m", "e", "l", "y", "_", "s", "u", "b", "t", "l", "e">>, <<"b", "a", "r", "e", "l", "y", "_", "v", "i", "s", "i", "b", "l", "e">> >>],
      [name |-> <<"s", "u", "b", "t", "l", "e", "t", "y">>, value |-> <<"2">>,
       descriptors |-> << <<"m", "o", "d", "e", "r", "a", "t", "e", "l", "y", "_", "s", "u", "b", "t", "l", "e">>, <<"f", "a", "i", "n", "t">> >>],
      [name |-> <<"s", "u", "b", "t", "l", "e", "t", "y">>, value |-> <<"3">>,
       descriptors |-> << <<"f", "a", "i", "r", "l", "y", "_", "s", "u", "b", "t", "l", "e">>, <<"v", "i", "s", "i", "b", "l", "e">> >>],
      [name |-> <<"s", "u", "b", "t", "l", "e", "t", "y">>, value |-> <<"4">>,
       descriptors |-> << <<"m", "o", "d", "e", "r", "a", "t", "e", "l", "y", "_", "o", "b", "v", "i", "o", "u", "s">>, <<"c", "l", "e", "a", "r">> >>],
      [name |-> <<"s", "u", "b", "t", "l", "e", "t", "y">>, value |-> <<"5">>,
       descriptors |-> << <<"o", "b", "v", "i", "o", "u", "s">>, <<"v", "e", "r", "y", "_", "c", "l", "e", "a", "r">> >>],
      [name |-> <<"m", "a", "l", "i", "g", "n", "a", "n", "c", "y">>, value |-> <<"1">>,
       descriptors |-> << <<"h", "i", "g", "h", "l", "y", "_", "u", "n", "l", "i", "k", "e", "l", "y", "_", "m", "a", "l", "i", "g", "n", "a", "n", "t">>, <<"b", "e", "n", "i", "g", "n">> >>],
      [name |-> <<"m", "a", "l", "i", "g", "n", "a", "n", "c", "y">>, value |-> <<"2">>,
       descriptors |-> << <<"m", "o", "d", "e", "r", "a", "t", "e", "l", "y", "_", "u", "n", "l", "i", "k", "e", "l", "y", "_", "m", "a", "l", "i", "g", "n", "a", "n", "t">>, <<"p", "r", "o", "b", "a", "b", "l", "y", "_", "b", "e", "n", "i", "g", "n">> >>],
      [name |-> <<"m", "a", "l", "i", "g", "n", "a", "n", "c", "y">>, value |-> <<"3">>,
       descriptors |-> << <<"i", "n", "d", "e", "t", "e", "r", "m", "i", "n", "a", "t", "e">>, <<"u", "n", "c", "e", "r", "t", "a", "i", "n">> >>],
      [name |-> <<"m", "a", "l", "i", "g", "n", "a", "n", "c", "y">>, value |-> <<"4">>,
       descriptors |-> << <<"m", "o", "d", "e", "r", "a", "t", "e", "l", "y", "_", "s", "u", "s", "p", "i", "c", "i", "o", "u", "s">>, <<"p", "o", "s", "s", "i", "b", "l", "y", "_", "m", "a", "l", "i", "g", "n", "a", "n", "t">> >>],
      [name |-> <<"m", "a", "l", "i", "g", "n", "a", "n", "c", "y">>, value |-> <<"5">>,
       descriptors |-> << <<"h", "i", "g", "h", "l", "y", "_", "s", "u", "s", "p", "i", "c", "i", "o", "u", "s">>, <<"l", "i", "k", "e", "l", "y", "_", "m", "a", "l", "i", "g", "n", "a", "n", "t">> >>],
      [name |-> <<"c", "a", "l", "c", "i", "f", "i", "c", "a", "t", "i", "o", "n">>, value |-> <<"1">>,
       descriptors |-> << <<"p", "o", "p", "c", "o", "r", "n">>, <<"b", "e", "n", "i", "g", "n", "_", "c", "a", "l", "c", "i", "f", "i", "c", "a", "t", "i", "o", "n">> >>],
      [name |-> <<"c", "a", "l", "c", "i", "f", "i", "c", "a", "t", "i", "o", "n">>, value |-> <<"2">>,
       descriptors |-> << <<"l", "a", "m", "i", "n", "a", "t", "e", "d">>, <<"c", "o", "n", "c", "e", "n", "t", "r", "i", "c">> >>],
      [name |-> <<"c", "a", "l", "c", "i", "f", "i", "c", "a", "t", "i", "o", "n">>, value |-> <<"3">>,
       descriptors |-> << <<"s", "o", "l", "i", "d">>, <<"d", "e", "n", "s", "e">> >>],
      [name |-> <<"c", "a", "l", "c", "i", "f", "i", "c", "a", "t", "i", "o", "n">>, value |-> <<"4">>,
       descriptors |-> << <<"n", "o", "n", "_", "c", "e", "n", "t", "r", "a", "l">>, <<"e", "c", "c", "e", "n", "t", "r", "i", "c">> >>],
      [name |-> <<"c", "a", "l", "c", "i", "f", "i", "c", "a", "t", "i", "o", "n">>, value |-> <<"5">>,
       descriptors |-> << <<"c", "e", "n", "t", "r", "a", "l">>, <<"c", "e", "n", "t", "r", "a", "l", "l", "y", "_", "l", "o", "c", "a", "t", "e", "d">> >>],
      [name |-> <<"c", "a", "l", "c", "i", "f", "i", "c", "a", "t", "i", "o", "n">>, value |-> <<"6">>,
       descriptors |-> << <<"a", "b", "s", "e", "n", "t">>, <<"n", "o", "_", "c", "a", "l", "c", "i", "f", "i", "c", "a", "t", "i", "o", "n">> >>],
      [name |-> <<"s", "p", "h", "e", "r", "i", "c", "i", "t", "y">>, value |-> <<"1">>,
       descriptors |-> << <<"l", "i", "n", "e", "a", "r">>, <<"e", "l", "o", "n", "g", "a", "t", "e", "d">> >>],
      [name |-> <<"s", "p", "h", "e", "r", "i", "c", "i", "t", "y">>, value |-> <<"3">>,
       descriptors |-> << <<"o", "v", "o", "i", "d">>, <<"o", "v", "a", "l">> >>],
      [name |-> <<"s", "p", "h", "e", "r", "i", "c", "i", "t", "y">>, value |-> <<"5">>,
       descriptors |-> << <<"r", "o", "u", "n", "d">>, <<"s", "p", "h", "e", "r", "i", "c", "a", "l">> >>],
      [name |-> <<"m", "a", "r", "g", "i", "n">>, value |-> <<"1">>,
       descriptors |-> << <<"p", "o", "o", "r", "l", "y", "_", "d", "e", "f", "i", "n", "e", "d">>, <<"i", "n", "d", "i", "s", "t", "i", "n", "c", "t">> >>],
      [name |-> <<"m", "a", "r", "g", "i", "n">>, value |-> <<"2">>,
       descriptors |-> << <<"n", "e", "a", "r", "_", "p", "o", "o", "r", "l", "y", "_", "d", "e", "f", "i", "n", "e", "d">>, <<"s", "o", "m", "e", "w", "h", "a", "t", "_", "i", "n", "d", "i", "s", "t", "i", "n", "c", "t">> >>],
      [name |-> <<"m", "a", "r", "g", "i", "n">>, value |-> <<"3">>,
       descriptors |-> << <<"m", "e", "d", "i", "u", "m", "_", "m", "a", "r", "g", "i", "n">>, <<"m", "o", "d", "e", "r", "a", "t", "e">> >>],
      [name |-> <<"m", "a", "r", "g", "i", "n">>, value |-> <<"4">>,
       descriptors |-> << <<"n", "e", "a", "r", "_", "s", "h", "a", "r", "p">>, <<"r", "e", "l", "a", "t", "i", "v", "e", "l", "y", "_", "s", "h", "a", "r", "p">> >>],
      [name |-> <<"m", "a", "r", "g", "i", "n">>, value |-> <<"5">>,
       descriptors |-> << <<"s", "h", "a", "r", "p">>, <<"w", "e", "l", "l", "_", "d", "e", "f", "i", "n", "e", "d">> >>],
      [name |-> <<"l", "o", "b", "u", "l", "a", "t", "i", "o", "n">>, value |-> <<"1">>,
       descriptors |-> << <<"m", "a", "r", "k", "e", "d", "_", "l", "o", "b", "u", "l", "a", "t", "i", "o", "n">>, <<"h", "i", "g", "h", "l", "y", "_", "l", "o", "b", "u", "l", "a", "t", "e", "d">> >>],
      [name |-> <<"l", "o", "b", "u", "l", "a", "t", "i", "o", "n">>, value |-> <<"2">>,
       descriptors |-> << <<"n", "e", "a", "r", "_", "m", "a", "r", "k", "e", "d">>, <<"m", "o", "d", "e", "r", "a", "t", "e", "l", "y", "_", "l", "o", "b", "u", "l", "a", "t", "e", "d">> >>],
      [name |-> <<"l", "o", "b", "u", "l", "a", "t", "i", "o", "n">>, value |-> <<"3">>,
       descriptors |-> << <<"m", "e", "d", "i", "u", "m", "_", "l", "o", "b", "u", "l", "a", "t", "i", "o", "n">>, <<"s", "o", "m", "e", "_", "l", "o", "b", "u", "l", "a", "t", "i", "o", "n">> >>],
      [name |-> <<"l", "o", "b", "u", "l", "a", "t", "i", "o", "n">>, value |-> <<"4">>,
       descriptors |-> << <<"n", "e", "a", "r", "_", "n", "o", "n", "e">>, <<"m", "i", "n", "i", "m", "a", "l", "_", "l", "o", "b", "u", "l", "a", "t", "i", "o", "n">> >>],
      [name |-> <<"l", "o", "b", "u", "l", "a", "t", "i", "o", "n">>, value |-> <<"5">>,
       descriptors |-> << <<"n", "o", "_", "l", "o", "b", "u", "l", "a", "t", "i", "o", "n">>, <<"s", "m", "o", "o", "t", "h">> >>],
      [name |-> <<"s", "p", "i", "c", "u", "l", "a", "t", "i", "o", "n">>, value |-> <<"1">>,
       descriptors |-> << <<"m", "a", "r", "k", "e", "d", "_", "s", "p", "i", "c", "u", "l", "a", "t", "i", "o", "n">>, <<"h", "i", "g", "h", "l", "y", "_", "s", "p", "i", "c", "u", "l", "a", "t", "e", "d">> >>],
      [name |-> <<"s", "p", "i", "c", "u", "l", "a", "t", "i", "o", "n">>, value |-> <<"2">>,
       descriptors |-> << <<"n", "e", "a", "r", "_", "m", "a", "r", "k", "e", "d">>, <<"m", "o", "d", "e", "r", "a", "t", "e", "l", "y", "_", "s", "p", "i", "c", "u", "l", "a", "t", "e", "d">> >>],
      [name |-> <<"s", "p", "i", "c", "u", "l", "a", "t", "i", "o", "n">>, value |-> <<"3">>,
       descriptors |-> << <<"m", "e", "d", "i", "u", "m", "_", "s", "p", "i", "c", "u", "l", "a", "t", "i", "o", "n">>, <<"s", "o", "m", "e", "_", "s", "p", "i", "c", "u", "l", "a", "t", "i", "o", "n">> >>],
      [name |-> <<"s", "p", "i", "c", "u", "l", "a", "t", "i", "o", "n">>, value |-> <<"4">>,
       descriptors |-> << <<"n", "e", "a", "r", "_", "n", "o", "n", "e">>, <<"m", "i", "n", "i", "m", "a", "l", "_", "s", "p", "i", "c", "u", "l", "a", "t", "i", "o", "n">> >>],
      [name |-> <<"s", "p", "i", "c", "u", "l", "a", "t", "i", "o", "n">>, value |-> <<"5">>,
       descriptors |-> << <<"n", "o", "_", "s", "p", "i", "c", "u", "l", "a", "t", "i", "o", "n">>, <<"s", "m", "o", "o", "t", "h", "_", "b", "o", "r", "d", "e", "r">> >>],
      [name |-> <<"t", "e", "x", "t", "u", "r", "e">>, value |-> <<"1">>,
       descriptors |-> << <<"n", "o", "n", "_", "s", "o", "l", "i", "d">>, <<"g", "r", "o", "u", "n", "d", "_", "g", "l", "a", "s", "s">> >>],
      [name |-> <<"t", "e", "x", "t", "u", "r", "e">>, value |-> <<"2">>,
       descriptors |-> << <<"n", "e", "a", "r", "_", "n", "o", "n", "_", "s", "o", "l", "i", "d">>, <<"m", "o", "s", "t", "l", "y", "_", "g", "r", "o", "u", "n", "d", "_", "g", "l", "a", "s", "s">> >>],
      [name |-> <<"t", "e", "x", "t", "u", "r", "e">>, value |-> <<"3">>,
       descriptors |-> << <<"p", "a", "r", "t", "_", "s", "o", "l", "i", "d">>, <<"m", "i", "x", "e", "d">> >>],
      [name |-> <<"t", "e", "x", "t", "u", "r", "e">>, value |-> <<"4">>,
       descriptors |-> << <<"n", "e", "a", "r", "_", "s", "o", "l", "i", "d">>, <<"m", "o", "s", "t", "l", "y", "_", "s", "o", "l", "i", "d">> >>],
      [name |-> <<"t", "e", "x", "t", "u", "r", "e">>, value |-> <<"5">>,
       descriptors |-> << <<"s", "o", "l", "i", "d">>, <<"c", "o", "m", "p", "l", "e", "t", "e", "l", "y", "_", "s", "o", "l", "i", "d">> >>]
    >>

DescribedNames ==
    { characteristic_descriptors[i].name : i \in 1..Len(characteristic_descriptors) }

\* self.characteristic_descriptors[name].get(value_str, [])
DescriptorsOf(name, value) ==
    LET hit == { i \in 1..Len(characteristic_descriptors) :
                   /\ characteristic_descriptors[i].name = name
                   /\ characteristic_descriptors[i].value = value }
    IN  IF hit = {} THEN <<>>
        ELSE characteristic_descriptors[CHOOSE i \in hit : TRUE].descriptors

\* XMLExtractedKeyword(...), normalized_form not yet set
Keyword(text, category, source_file, nodule_id, context, metadata) ==
    [text |-> text, category |-> category, source_file |-> source_file,
     nodule_id |-> nodule_id, context |-> context, frequency |-> 1,
     normalized_form |-> None, metadata |-> metadata]

\* XMLKeywordExtractor._extract_header_keywords
_extract_header_keywords(df, source_file) ==
    IF df = <<>> THEN <<>>
    ELSE
    (IF "Modality" \in Columns(df) /\ Cell(df, 1, "Modality") # NaN
     THEN << Keyword(Lower(Cell(df, 1, "Modality")), "header", source_file, None,
                     <<"i", "m", "a", "g", "i", "n", "g", "_", "m", "o", "d", "a", "l", "i", "t", "y">>,
                     [field |-> <<"M", "o", "d", "a", "l", "i", "t", "y">>]) >>
     ELSE <<>>)
    \o
    (IF "StudyInstanceUID" \in Columns(df) /\ Cell(df, 1, "StudyInstanceUID") # NaN
     THEN << Keyword(<<"s", "t", "u", "d", "y", "_">> \o LastDotPart(Cell(df, 1, "StudyInstanceUID")),
                     "header", source_file, None,
                     <<"s", "t", "u", "d", "y", "_", "i", "d", "e", "n", "t", "i", "f", "i", "e", "r">>,
                     [field |-> <<"S", "t", "u", "d", "y", "I", "n", "s", "t", "a", "n", "c", "e", "U", "I", "D">>]) >>
     ELSE <<>>)

\* the keywords of one characteristic name/value pair
CharacteristicPairKeywords(source_file, nodule_id, char_name, char_value) ==
    LET context == char_name \o << "=" >> \o char_value
        descriptors == IF Lower(char_name) \in DescribedNames
                       THEN DescriptorsOf(Lower(char_name), char_value)
                       ELSE <<>>
    IN  << Keyword(Lower(char_name), "characteristic", source_file, nodule_id,
                   context, [characteristic |-> char_name, value |-> char_value]) >>
        \o [ i \in 1..Len(descriptors) |->
               Keyword(descriptors[i], "characteristic_semantic", source_file,
                       nodule_id, context,
                       [characteristic |-> char_name, value |-> char_value,
                        descriptor |-> descriptors[i]]) ]

\* the loop over characteristics.items(); a dict cell is the sequence of
\* its [name, value] items
RECURSIVE CharacteristicItemsKeywords(_, _, _)
CharacteristicItemsKeywords(source_file, nodule_id, items) ==
    IF items = <<>> THEN <<>>
    ELSE (IF Head(items).value = NaN THEN <<>>
          ELSE CharacteristicPairKeywords(source_file, nodule_id,
                                          Head(items).name, Head(items).value))
         \o CharacteristicItemsKeywords(source_file, nodule_id, Tail(items))

\* XMLKeywordExtractor._extract_characteristic_keywords
RECURSIVE CharacteristicRowsKeywords(_, _, _)
CharacteristicRowsKeywords(df, source_file, i) ==
    IF i > Len(df) THEN <<>>
    ELSE (IF "Characteristics" \notin Columns(df)
             \/ Cell(df, i, "Characteristics") = NaN
          THEN <<>>
          ELSE CharacteristicItemsKeywords(
                   source_file,
                   RowGet(df, i, "NoduleID", IntStr(i - 1)),
                   Cell(df, i, "Characteristics")))
         \o CharacteristicRowsKeywords(df, source_file, i + 1)

_extract_characteristic_keywords(df, source_file, parse_case) ==
    CharacteristicRowsKeywords(df, source_file, 1)

\* XMLKeywordExtractor._extract_roi_keywords
RECURSIVE RoiRowsKeywords(_, _, _)
RoiRowsKeywords(df, source_file, i) ==
    IF i > Len(df) THEN <<>>
    ELSE (IF "ROI_Coords" \notin Columns(df)
             \/ Cell(df, i, "ROI_Coords") = NaN
             \/ Cell(df, i, "ROI_Coords") = <<>>
          THEN <<>>
          ELSE LET num_coords == Len(Cell(df, i, "ROI_Coords"))
               IN  << Keyword(<<"r", "o", "i", "_", "s", "i", "z", "e", "_">> \o IntStr(num_coords) \o <<"_", "p", "o", "i", "n", "t", "s">>,
                              "roi", source_file,
                              RowGet(df, i, "NoduleID", IntStr(i - 1)),
                              <<"R", "O", "I", " ", "w", "i", "t", "h", " ">> \o IntStr(num_coords)
                                  \o <<" ", "c", "o", "o", "r", "d", "i", "n", "a", "t", "e", " ", "p", "o", "i", "n", "t", "s">>,
                              [roi_point_count |-> num_coords]) >>)
         \o RoiRowsKeywords(df, source_file, i + 1)

_extract_roi_keywords(df, source_file) == RoiRowsKeywords(df, source_file, 1)

\* the keywords returned as they were built, without the normalization loop
NormalizeAll_Skipped(keywords) == keywords

\* keyword.normalized_form = self.normalizer.normalize(keyword.text), for all
NormalizeAll(keywords) ==
    [ i \in 1..Len(keywords) |->
        [keywords[i] EXCEPT !.normalized_form = normalize(keywords[i].text, TRUE)] ]

\* XMLKeywordExtractor.extract_from_xml; every exception is caught and the
\* keywords collected so far are returned
extract_from_xml(xml_file, extract_characteristics_flag, extract_header, extract_roi) ==
    LET parsed == parse_radiology_sample(xml_file)
    IN  IF parsed.raised THEN <<>>
        ELSE
        LET main_df == parsed.value
        IN  IF main_df = <<>> THEN <<>>
            ELSE
            LET parse_case == detect_parse_case(xml_file)
                header_keywords ==
                    IF extract_header /\ "StudyInstanceUID" \in Columns(main_df)
                    THEN _extract_header_keywords(main_df, xml_file)
                    ELSE <<>>
                char_keywords ==
                    IF extract_characteristics_flag /\ "Characteristics" \in Columns(main_df)
                    THEN _extract_characteristic_keywords(main_df, xml_file, parse_case.value)
                    ELSE <<>>
                roi_keywords ==
                    IF extract_roi /\ "ROI_Coords" \in Columns(main_df)
                    THEN _extract_roi_keywords(main_df, xml_file)
                    ELSE <<>>
            IN  IF parse_case.raised THEN <<>>
                ELSE NormalizeAll(header_keywords \o char_keywords \o roi_keywords)

(***************************************************************************)
(* AutoAnalyzer (auto_analysis.py)                                         *)
(* schemas/canonical.py is not part of the sources: Entity,                *)
(* ExtractedEntities, ExtractionMetadata and RadiologyCanonicalDocument    *)
(* are records of the fields the analyzer passes or assigns; construction  *)
(* accepts every value passed, and a field the analyzer leaves alone keeps *)
(* an empty default.                                                       *)
(***************************************************************************)
Entity(entity_type, value, normalized_value, confidence, source_field, metadata) ==
    [entity_type |-> entity_type, value |-> value,
     normalized_value |-> normalized_value, confidence |-> confidence,
     source_field |-> source_field, metadata |-> metadata]

ExtractedEntities ==
    [dates |-> <<>>, identifiers |-> <<>>, medical_terms |-> <<>>,
     people |-> <<>>, organizations |-> <<>>]

\* the truth value of  metadata_row.get(col)
RowTruthy(df, col) ==
    LET v == RowGet(df, 1, col, None) IN v # None /\ v # <<>>

\* the Entity of one characteristic / characteristic_semantic keyword
MedicalTermEntity(kw) ==
    Entity("MEDICAL_TERM", kw.text,
           IF Truthy(kw.normalized_form) THEN kw.normalized_form ELSE kw.text,
           85, "characteristics",
           DictUpdate([category |-> kw.category, nodule_id |-> kw.nodule_id],
                      kw.metadata))

IsCharacteristicKw(kw) ==
    kw.category \in { "characteristic", "characteristic_semantic" }

\* AutoAnalyzer._extract_entities_from_keywords; metadata_row is row 0 of df
_extract_entities_from_keywords(keywords, df) ==
    LET terms == SelectSeq(keywords, IsCharacteristicKw)
    IN
    [ExtractedEntities EXCEPT
       !.dates =
           IF RowTruthy(df, "DateService")
           THEN << Entity("DATE", Cell(df, 1, "DateService"),
                          Cell(df, 1, "DateService"), 99, "DateService", EmptyDict) >>
           ELSE <<>>,
       !.identifiers =
           (IF RowTruthy(df, "StudyInstanceUID")
            THEN << Entity("IDENTIFIER", Cell(df, 1, "StudyInstanceUID"),
                           <<"s", "t", "u", "d", "y", "_", "u", "i", "d">>, 100, "StudyInstanceUID",
                           [type |-> <<"D", "I", "C", "O", "M", "_", "S", "t", "u", "d", "y", "U", "I", "D">>]) >>
            ELSE <<>>)
           \o
           (IF RowTruthy(df, "SeriesInstanceUID")
            THEN << Entity("IDENTIFIER", Cell(df, 1, "SeriesInstanceUID"),
                           <<"s", "e", "r", "i", "e", "s", "_", "u", "i", "d">>, 100, "SeriesInstanceUID",
                           [type |-> <<"D", "I", "C", "O", "M", "_", "S", "e", "r", "i", "e", "s", "U", "I", "D">>]) >>
            ELSE <<>>),
       !.medical_terms = [ i \in 1..Len(terms) |-> MedicalTermEntity(terms[i]) ]]

\* s[:20]
First20(s) == SubSeq(s, 1, Min(Len(s), 20))

\* the nodule_data dictionary of row i
NoduleData(df, i) ==
    [nodule_id |-> RowGet(df, i, "NoduleID", IntStr(i - 1)),
     characteristics |-> RowGet(df, i, "Characteristics", <<>>),
     roi_coords |-> RowGet(df, i, "ROI_Coords", <<>>)]

\* the document analyze_xml returns for the rows df and an overall
\* confidence (the extraction timestamp is left out)
CanonicalDocument(xml_file, df, populate_entities, keywords, confidence) ==
    [document_metadata |->
        [document_type |-> <<"r", "a", "d", "i", "o", "l", "o", "g", "y", "_", "r", "e", "p", "o", "r", "t">>,
         date |-> RowGet(df, 1, "DateService", None),
         title |-> <<"R", "a", "d", "i", "o", "l", "o", "g", "y", " ", "S", "c", "a", "n", " ", "-", " ">>
                   \o First20(RowGet(df, 1, "StudyInstanceUID", <<"U", "n", "k", "n", "o", "w", "n">>))
                   \o <<".", ".", ".">>],
     study_instance_uid |-> RowGet(df, 1, "StudyInstanceUID", None),
     series_instance_uid |-> RowGet(df, 1, "SeriesInstanceUID", None),
     modality |-> RowGet(df, 1, "Modality", None),
     nodules |-> [ i \in 1..Len(df) |-> NoduleData(df, i) ],
     radiologist_readings |-> <<>>,
     entities |-> IF populate_entities
                  THEN _extract_entities_from_keywords(keywords, df)
                  ELSE ExtractedEntities,
     extraction_metadata |->
        [profile_name |-> <<"x", "m", "l", "_", "a", "u", "t", "o", "_", "e", "x", "t", "r", "a", "c", "t", "i", "o", "n">>,
         parser_version |-> <<"0", ".", "5", ".", "0">>,
         overall_confidence |-> confidence]]

\* the analysis without the check of main_df.empty
analyze_xml_NoEmptyCheck(xml_file, populate_entities) ==
    LET parsed == parse_radiology_sample(xml_file)
    IN  IF parsed.raised THEN { parsed }
        ELSE LET keywords == extract_from_xml(xml_file, TRUE, TRUE, FALSE)
             IN  { Returned(CanonicalDocument(xml_file, parsed.value,
                                              populate_entities, keywords, c)) :
                   c \in _calculate_confidence(keywords) }

\* AutoAnalyzer.analyze_xml: the set of its possible outcomes (one per
\* rounding of the confidence)
analyze_xml(xml_file, populate_entities) ==
    LET parsed == parse_radiology_sample(xml_file)
    IN  IF parsed.raised THEN { parsed }
        ELSE IF parsed.value = <<>>
        THEN { Raised("ValueError", << "No data extracted from ", xml_file >>) }
        ELSE LET keywords == extract_from_xml(xml_file, TRUE, TRUE, FALSE)
             IN  { Returned(CanonicalDocument(xml_file, parsed.value,
                                              populate_entities, keywords, c)) :
                   c \in _calculate_confidence(keywords) }

(***************************************************************************)
(* Bounded documents for the parser, the extractor and the analyzer        *)
(***************************************************************************)
MaxSessions == 5
MaxNodules == 2

RootNames == { "LidcReadMessage", "IdriReadMessage" }
RootNamespaces == { "", "urn:nih" }

Leaf(ns, name, text) == El(ns, name, text, <<>>)

StudyUid == <<"1", ".", "2", ".", "8", "4", "0">>
SeriesUid == <<"1", ".", "2", ".", "7">>

\* the children of the ResponseHeader, one sequence per header shape
HeaderShapes(ns) ==
    << <<>>,
       << Leaf(ns, "StudyInstanceUID", StudyUid), Leaf(ns, "SeriesInstanceUID", SeriesUid) >>,
       << Leaf(ns, "StudyInstanceUID", StudyUid), Leaf(ns, "SeriesInstanceUID", SeriesUid),
          Leaf(ns, "DateService", <<"2", "0", "0", "0", "-", "0", "1", "-", "0", "1">>) >>,
       << Leaf(ns, "StudyInstanceUID", StudyUid), Leaf(ns, "SeriesInstanceUID", SeriesUid),
          Leaf(ns, "Modality", <<"C", "T">>) >>,
       << Leaf(ns, "StudyInstanceUID", StudyUid), Leaf(ns, "SeriesInstanceUID", SeriesUid),
          Leaf(ns, "Modality", <<"C", "T">>), Leaf(ns, "DateService", <<"2", "0", "0", "0", "-", "0", "1", "-", "0", "1">>),
          Leaf(ns, "TimeService", <<"0", "9", ":", "3", "0">>) >>,
       << Leaf(ns, "StudyInstanceUID", <<>>), Leaf(ns, "Modality", None),
          Leaf(ns, "DateService", <<>>) >> >>

\* header shape 0 is a document without ResponseHeader
HeaderKids(ns, h) ==
    IF h = 0 THEN <<>>
    ELSE << El(ns, "ResponseHeader", None, HeaderShapes(ns)[h]) >>

Roi(ns, kids) == El(ns, "roi", None, kids)

\* the three kinds of unblindedReadNodule element
NoduleKinds == { "full", "bare", "rois" }

NoduleElem(ns, kind) ==
    IF kind = "full"
    THEN El(ns, "unblindedReadNodule", None,
            << Leaf(ns, "noduleID", <<"N", "o", "d", "u", "l", "e", " ", "1">>),
               El(ns, "characteristics", None,
                  << Leaf(ns, "subtlety", << "5" >>), Leaf(ns, "malignancy", << "1" >>) >>),
               Roi(ns, << Leaf(ns, "imageSOP_UID", <<"1", ".", "9">>), Leaf(ns, "xCoord", << "3" >>),
                          Leaf(ns, "yCoord", << "4" >>) >>) >>)
    ELSE IF kind = "bare"
    THEN El(ns, "unblindedReadNodule", None,
            << El(ns, "characteristics", None,
                  << Leaf(ns, "subtlety", << "9" >>), Leaf(ns, "internalStructure", << "1" >>),
                     Leaf(ns, "texture", None) >>) >>)
    ELSE El(ns, "unblindedReadNodule", None,
            << Leaf(ns, "noduleID", <<>>),
               Roi(ns, <<>>),
               Roi(ns, << Leaf(ns, "xCoord", << "7" >>) >>) >>)

\* a namespace other than the root's
ForeignNs(ns) == IF ns = "" THEN "urn:other" ELSE ""

\* elements the root-level lookups must pass over: a readingSession and a
\* nodule nested under another element, or in a foreign namespace
ExtraShapes == { "none", "nested", "foreign" }

ExtraKids(ns, x) ==
    IF x = "nested"
    THEN << El(ns, "wrapper", None,
               << El(ns, "readingSession", None, << NoduleElem(ns, "full") >>) >>) >>
    ELSE IF x = "foreign"
    THEN << Leaf(ForeignNs(ns), "readingSession", None),
            NoduleElem(ForeignNs(ns), "full"),
            El(ForeignNs(ns), "ResponseHeader", None,
               << Leaf(ForeignNs(ns), "Modality", <<"M", "R">>),
                  Leaf(ForeignNs(ns), "DateService", <<"2", "0", "0", "0", "-", "0", "1", "-", "0", "1">>) >>) >>
    ELSE <<>>

Document(name, ns, h, sessions, x, nodules) ==
    El(ns, name, None,
       HeaderKids(ns, h)
       \o [ i \in 1..sessions |-> Leaf(ns, "readingSession", None) ]
       \o ExtraKids(ns, x)
       \o [ i \in 1..Len(nodules) |-> NoduleElem(ns, nodules[i]) ])

Documents ==
    { Document(name, ns, h, n, x, nodules) :
        name \in RootNames, ns \in RootNamespaces, h \in 0..Len(HeaderShapes("")),
        n \in 0..MaxSessions, x \in ExtraShapes,
        nodules \in SeqsUpTo(NoduleKinds, MaxNodules) }

Files == { Absent, Malformed } \cup { XmlFile(d) : d \in Documents }

\* the vocabularies the extractor's normalizer is built from
DocDictionaries ==
    { EmptyTerms,
      [synonyms |-> << [canon |-> <<"c", "o", "m", "p", "u", "t", "e", "d", " ", "t", "o", "m", "o", "g", "r", "a", "p", "h", "y">>, syns |-> << <<"c", "t">> >>] >>,
       abbreviations |-> << [abbr |-> <<"c", "t">>, full |-> <<"c", "o", "m", "p", "u", "t", "e", "d", " ", "t", "o", "m", "o", "g", "r", "a", "p", "h", "y">>] >>] }

XmlPath == "scan.xml"

InitDoc ==
    /\ \E d \in DocDictionaries : NormalizerInit(d)
    /\ norm_call = NoCall
    /\ QueryIdle
    /\ SearchIdle
    /\ ConfIdle
    /\ \E f \in Files : files = [p \in { XmlPath } |-> f]
    /\ doc_call = NoCall
    /\ batch = NoBatch

DocCall(op, ret) == [done |-> TRUE, op |-> op, ret |-> ret]

DetectParseCase ==
    /\ ~ doc_call.done
    /\ doc_call' = DocCall("detect_parse_case", detect_parse_case(XmlPath))
    /\ UNCHANGED << normVars, queryVars, searchVars, confVars, files, batch >>

ParseRadiologySample ==
    /\ ~ doc_call.done
    /\ doc_call' = DocCall("parse_radiology_sample", parse_radiology_sample(XmlPath))
    /\ UNCHANGED << normVars, queryVars, searchVars, confVars, files, batch >>

ExtractFromXml(c, h, r) ==
    /\ ~ doc_call.done
    /\ doc_call' = [done |-> TRUE, op |-> "extract_from_xml", flags |-> << c, h, r >>,
                    ret |-> Returned(extract_from_xml(XmlPath, c, h, r))]
    /\ UNCHANGED << normVars, queryVars, searchVars, confVars, files, batch >>

AnalyzeXml(populate_entities) ==
    /\ ~ doc_call.done
    /\ \E out \in analyze_xml(XmlPath, populate_entities) :
          doc_call' = [done |-> TRUE, op |-> "analyze_xml",
                       populate_entities |-> populate_entities, ret |-> out]
    /\ UNCHANGED << normVars, queryVars, searchVars, confVars, files, batch >>

NextDoc ==
    \/ DetectParseCase
    \/ ParseRadiologySample
    \/ \E c, h, r \in BOOLEAN : ExtractFromXml(c, h, r)
    \/ \E populate_entities \in BOOLEAN : AnalyzeXml(populate_entities)

SpecDoc == InitDoc /\ [][NextDoc]_vars

(***************************************************************************)
(* Classification of a document (detect_parse_case)                        *)
(***************************************************************************)
\* the document a call was made on
CalledRoot == files[XmlPath].root

Classified ==
    /\ doc_call.done
    /\ doc_call.op = "detect_parse_case"
    /\ files[XmlPath].kind = "xml"

IsSession(e, ns) == e.ns = ns /\ e.name = "readingSession"

\* the readingSession elements, in the root's namespace, that are children
\* of the root
SessionChildren(root) ==
    Cardinality({ i \in 1..Len(root.kids) : IsSession(root.kids[i], root.ns) })

\* the elements with that property anywhere under e
RECURSIVE CountUnder(_, _)
CountUnder(e, ns) ==
    LET RECURSIVE Sum(_)
        Sum(i) == IF i = 0 THEN 0
                  ELSE Sum(i - 1)
                       + (IF IsSession(e.kids[i], ns) THEN 1 ELSE 0)
                       + CountUnder(e.kids[i], ns)
    IN  Sum(Len(e.kids))

LidcCaseFor(n) ==
    IF n = 1 THEN "LIDC_Single_Session" ELSE "LIDC_Multi_Session_" \o ToString(n)

\* C7 (as stated): a LidcReadMessage document is classified by the number n
\* of readingSession elements, in the root's namespace, anywhere under the
\* root: LIDC_Single_Session for n = 1, LIDC_Multi_Session_<n> otherwise.
C7_SessionsAnywhereUnderRoot ==
    (Classified /\ CalledRoot.name = "LidcReadMessage")
        => doc_call.ret = Returned(LidcCaseFor(CountUnder(CalledRoot, CalledRoot.ns)))

\* C7 (amended): a LidcReadMessage document is classified by the number n of
\* readingSession elements, in the root's namespace, that are children of
\* the root: LIDC_Single_Session for n = 1 and LIDC_Multi_Session_<n> for
\* every other n, n = 0 and n > 4 included.
C7_SessionChildrenOfRoot ==
    (Classified /\ CalledRoot.name = "LidcReadMessage")
        => doc_call.ret = Returned(LidcCaseFor(SessionChildren(CalledRoot)))

\* a LidcReadMessage with more than four session children, and further
\* sessions below them, has been classified by its children
C7_Witness ==
    /\ Classified
    /\ CalledRoot.name = "LidcReadMessage"
    /\ SessionChildren(CalledRoot) > 4
    /\ CountUnder(CalledRoot, CalledRoot.ns) > SessionChildren(CalledRoot)
    /\ doc_call.ret = Returned("LIDC_Multi_Session_" \o ToString(SessionChildren(CalledRoot)))

\* the ResponseHeader children of the root, in the root's namespace
HeaderChildren(root) ==
    { i \in 1..Len(root.kids) :
        root.kids[i].ns = root.ns /\ root.kids[i].name = "ResponseHeader" }

FirstHeader(root) == root.kids[CHOOSE i \in HeaderChildren(root) :
                                 \A j \in HeaderChildren(root) : i <= j]

HasChild(e, ns, name) ==
    \E i \in 1..Len(e.kids) : e.kids[i].ns = ns /\ e.kids[i].name = name

\* C8: a document whose root is not LidcReadMessage is classified Unknown
\* without ResponseHeader, Complete_Attributes when the header has Modality
\* and DateService, Core_Attributes_Only when it has DateService but not
\* Modality, With_Reason_Partial in every remaining case.
C8_NonLidcClassification ==
    (Classified /\ CalledRoot.name # "LidcReadMessage")
        => LET root == CalledRoot
               m == HasChild(FirstHeader(root), root.ns, "Modality")
               d == HasChild(FirstHeader(root), root.ns, "DateService")
           IN  doc_call.ret = Returned(
                   IF HeaderChildren(root) = {} THEN "Unknown"
                   ELSE IF m /\ d THEN "Complete_Attributes"
                   ELSE IF d /\ ~ m THEN "Core_Attributes_Only"
                   ELSE "With_Reason_Partial")

\* a header with Modality but no DateService has been classified
\* With_Reason_Partial
C8_Witness ==
    /\ Classified
    /\ CalledRoot.name # "LidcReadMessage"
    /\ HeaderChildren(CalledRoot) # {}
    /\ HasChild(FirstHeader(CalledRoot), CalledRoot.ns, "Modality")
    /\ ~ HasChild(FirstHeader(CalledRoot), CalledRoot.ns, "DateService")
    /\ doc_call.ret = Returned("With_Reason_Partial")

(***************************************************************************)
(* Empty documents: parse_radiology_sample against analyze_xml             *)
(***************************************************************************)
IsNodule(e, ns) == e.ns = ns /\ e.name = "unblindedReadNodule"

\* the positions of the nodule elements the parser reads: the
\* unblindedReadNodule children of the root, in the root's namespace
NoduleChildren(root) ==
    { i \in 1..Len(root.kids) : IsNodule(root.kids[i], root.ns) }

CalledOnXml(op) ==
    /\ doc_call.done
    /\ doc_call.op = op
    /\ files[XmlPath].kind = "xml"

\* C2: on a document from which zero nodule records are extracted,
\* analyze_xml raises the empty-result error and returns no document, and
\* parse_radiology_sample returns the empty record sequence without raising.
C2_EmptyRaisesOnlyInAnalysis ==
    (doc_call.done /\ files[XmlPath].kind = "xml" /\ NoduleChildren(CalledRoot) = {})
        => /\ doc_call.op = "analyze_xml"
                => doc_call.ret = Raised("ValueError", << "No data extracted from ", XmlPath >>)
           /\ doc_call.op = "parse_radiology_sample"
                => doc_call.ret = Returned(<<>>)

\* a document whose only nodules lie below a nested session has been
\* analyzed, and the analysis has raised
C2_Witness ==
    /\ CalledOnXml("analyze_xml")
    /\ NoduleChildren(CalledRoot) = {}
    /\ CountUnder(CalledRoot, CalledRoot.ns) > SessionChildren(CalledRoot)
    /\ doc_call.ret.raised
    /\ doc_call.ret.exc = "ValueError"

(***************************************************************************)
(* Keywords of a document (extract_from_xml)                               *)
(***************************************************************************)
\* the characteristic names as Python strings
CharName ==
    [subtlety |-> <<"s", "u", "b", "t", "l", "e", "t", "y">>,
     internalStructure |-> <<"i", "n", "t", "e", "r", "n", "a", "l", "S", "t", "r", "u", "c", "t", "u", "r", "e">>,
     calcification |-> <<"c", "a", "l", "c", "i", "f", "i", "c", "a", "t", "i", "o", "n">>,
     sphericity |-> <<"s", "p", "h", "e", "r", "i", "c", "i", "t", "y">>,
     margin |-> <<"m", "a", "r", "g", "i", "n">>,
     lobulation |-> <<"l", "o", "b", "u", "l", "a", "t", "i", "o", "n">>,
     spiculation |-> <<"s", "p", "i", "c", "u", "l", "a", "t", "i", "o", "n">>,
     texture |-> <<"t", "e", "x", "t", "u", "r", "e">>,
     malignancy |-> <<"m", "a", "l", "i", "g", "n", "a", "n", "c", "y">>]

\* the characteristic elements of a nodule element: the children, with a
\* text, of its characteristics child
CharacteristicElems(root, nodule) ==
    LET cs == { i \in 1..Len(nodule.kids) :
                  nodule.kids[i].ns = root.ns /\ nodule.kids[i].name = "characteristics" }
        first == nodule.kids[CHOOSE i \in cs : \A j \in cs : i <= j]
    IN  IF cs = {} THEN {}
        ELSE { first.kids[i] : i \in { j \in 1..Len(first.kids) :
                   /\ first.kids[j].ns = root.ns
                   /\ first.kids[j].name \in DOMAIN CharName
                   /\ first.kids[j].text # None
                   /\ first.kids[j].text # <<>> } }

HasKeyword(keywords, category, text) ==
    \E i \in 1..Len(keywords) :
        keywords[i].category = category /\ keywords[i].text = text

\* C5: for every characteristic name/value pair present on a nodule of the
\* document, the keywords returned by extract_from_xml contain a
\* characteristic keyword whose text is the name and, for a mapped name and
\* code, a characteristic_semantic keyword for each descriptor of the code.
C5_CharacteristicKeywords ==
    (CalledOnXml("extract_from_xml") /\ doc_call.flags[1])
        => \A n \in NoduleChildren(CalledRoot) :
             \A c \in CharacteristicElems(CalledRoot, CalledRoot.kids[n]) :
                LET name == CharName[c.name]
                    descriptors == DescriptorsOf(Lower(name), c.text)
                IN  /\ \/ HasKeyword(doc_call.ret.value, "characteristic", name)
                       \/ HasKeyword(doc_call.ret.value, "characteristic", Lower(name))
                    /\ \A d \in 1..Len(descriptors) :
                          HasKeyword(doc_call.ret.value, "characteristic_semantic",
                                     descriptors[d])

\* C6: every keyword extract_from_xml returns has its normalized form set
\* to normalize(text).
C6_ReturnedKeywordsNormalized ==
    CalledOnXml("extract_from_xml")
        => \A i \in 1..Len(doc_call.ret.value) :
              doc_call.ret.value[i].normalized_form
                  = normalize(doc_call.ret.value[i].text, TRUE)

\* a non-empty keyword sequence has been returned, with a keyword whose
\* normalized form differs from its text
C6_Witness ==
    /\ CalledOnXml("extract_from_xml")
    /\ \E i \in 1..Len(doc_call.ret.value) :
          /\ doc_call.ret.value[i].normalized_form = normalize(doc_call.ret.value[i].text, TRUE)
          /\ doc_call.ret.value[i].normalized_form # doc_call.ret.value[i].text

(***************************************************************************)
(* AutoAnalyzer.analyze_batch                                              *)
(* batch holds the locals of the call: xml_files, the loop index i,        *)
(* documents, and what the call has handed to its surroundings: the        *)
(* progress callbacks made (progress) and the errors logged (errors).      *)
(* The progress callback returns normally.                                 *)
(***************************************************************************)
MaxBatch == 3

BatchFiles ==
    [p \in { "a.xml", "b.xml", "empty.xml", "bad.xml", "gone.xml" } |->
        IF p = "a.xml"
        THEN XmlFile(Document("IdriReadMessage", "", 4, 0, "none", << "full" >>))
        ELSE IF p = "b.xml"
        THEN XmlFile(Document("LidcReadMessage", "urn:nih", 2, 2, "nested", << "bare", "rois" >>))
        ELSE IF p = "empty.xml"
        THEN XmlFile(Document("LidcReadMessage", "", 4, 1, "nested", <<>>))
        ELSE IF p = "bad.xml" THEN Malformed
        ELSE Absent]

\* the callback given the index of the item counted from 0
progress_call_FromZero(b) == << b.i - 1, Len(b.xml_files), b.xml_files[b.i] >>

\* the arguments of progress_callback(i, total, xml_file)
progress_call(b) == << b.i, Len(b.xml_files), b.xml_files[b.i] >>

\* where the loop stands when item i is next: at the callback, at the
\* analysis, or at the return
LoopHead(b) ==
    IF b.i > Len(b.xml_files) THEN "return"
    ELSE IF b.has_callback THEN "callback"
    ELSE "analyze"

\* the body of the loop with a failing item ending the loop
analyze_item_Abort(b, out) ==
    LET next == IF out.raised
                THEN [b EXCEPT !.errors = Append(@, b.xml_files[b.i]),
                               !.i = Len(b.xml_files) + 1]
                ELSE [b EXCEPT !.documents = Append(@, out.value),
                               !.i = @ + 1]
    IN  [next EXCEPT !.pc = LoopHead(next)]

\* the try/except of the loop body, for the outcome out of analyze_xml
analyze_item(b, out) ==
    LET next == IF out.raised
                THEN [b EXCEPT !.errors = Append(@, b.xml_files[b.i]),
                               !.i = @ + 1]
                ELSE [b EXCEPT !.documents = Append(@, out.value),
                               !.i = @ + 1]
    IN  [next EXCEPT !.pc = LoopHead(next)]

\* the call analyze_batch(xml_files, progress_callback) has been entered
BatchStart(xml_files, has_callback) ==
    LET b == [pc |-> "start", xml_files |-> xml_files, has_callback |-> has_callback,
              i |-> 1, documents |-> <<>>, progress |-> <<>>, errors |-> <<>>]
    IN  [b EXCEPT !.pc = LoopHead(b)]

InitBatch ==
    /\ \E d \in DocDictionaries : NormalizerInit(d)
    /\ norm_call = NoCall
    /\ QueryIdle
    /\ SearchIdle
    /\ ConfIdle
    /\ files = BatchFiles
    /\ doc_call = NoCall
    /\ \E xml_files \in SeqsUpTo(DOMAIN BatchFiles, MaxBatch), has_callback \in BOOLEAN :
          batch = BatchStart(xml_files, has_callback)

\* progress_callback(i, total, xml_file)
BatchProgress ==
    /\ batch.pc = "callback"
    /\ batch' = [batch EXCEPT !.progress = Append(@, progress_call(batch)),
                               !.pc = "analyze"]
    /\ UNCHANGED << normVars, queryVars, searchVars, confVars, files, doc_call >>

\* doc = self.analyze_xml(xml_file), appended or logged
BatchAnalyze ==
    /\ batch.pc = "analyze"
    /\ \E out \in analyze_xml(batch.xml_files[batch.i], TRUE) :
          batch' = analyze_item(batch, out)
    /\ UNCHANGED << normVars, queryVars, searchVars, confVars, files, doc_call >>

\* return documents
BatchReturn ==
    /\ batch.pc = "return"
    /\ batch' = [pc |-> "returned", xml_files |-> batch.xml_files,
                 has_callback |-> batch.has_callback, i |-> batch.i,
                 documents |-> batch.documents, progress |-> batch.progress,
                 errors |-> batch.errors, ret |-> batch.documents]
    /\ UNCHANGED << normVars, queryVars, searchVars, confVars, files, doc_call >>

NextBatch ==
    \/ BatchProgress
    \/ BatchAnalyze
    \/ BatchReturn

SpecBatch == InitBatch /\ [][NextBatch]_vars

\* single-document analysis of the file at path succeeds: the file exists,
\* is well-formed and its root has a nodule child
AnalysisSucceeds(path) ==
    /\ files[path].kind = "xml"
    /\ NoduleChildren(files[path].root) # {}

\* the items among the first n whose analysis succeeds, in input order
SucceedingItems(xml_files, n) ==
    SelectSeq(SubSeq(xml_files, 1, n), AnalysisSucceeds)

\* docs are canonical documents of the paths, one for one and in order
DocumentsOf(docs, paths) ==
    /\ Len(docs) = Len(paths)
    /\ \A k \in 1..Len(paths) : Returned(docs[k]) \in analyze_xml(paths[k], TRUE)

\* C1: analyze_batch never aborts on a failing item.  While items 1..i-1
\* have been processed, the collected documents are exactly the canonical
\* documents of those among them whose analysis succeeds, in input order (so
\* a failure removes and changes nothing collected before it); the call
\* returns only after all items have been processed, and returns the
\* documents collected.
C1_BatchCollectsAndContinues ==
    batch.pc # "idle"
        => /\ batch.i \in 1..(Len(batch.xml_files) + 1)
           /\ DocumentsOf(batch.documents,
                          SucceedingItems(batch.xml_files, batch.i - 1))
           /\ batch.pc = "returned"
                => /\ batch.i = Len(batch.xml_files) + 1
                   /\ batch.ret = batch.documents

\* a batch has returned in which an item that fails stands between two
\* items that succeed, and both their documents are in the result
C1_Witness ==
    /\ batch.pc = "returned"
    /\ \E j \in 2..(Len(batch.xml_files) - 1) :
          /\ ~ AnalysisSucceeds(batch.xml_files[j])
          /\ AnalysisSucceeds(batch.xml_files[j - 1])
          /\ AnalysisSucceeds(batch.xml_files[j + 1])
          /\ batch.xml_files[j - 1] # batch.xml_files[j + 1]
    /\ Len(batch.ret) = 2
    /\ Len(batch.errors) = 1

(***************************************************************************)
(* The search index over a sequence of index_keywords and search calls     *)
(***************************************************************************)
\* the (canonical key, surface form) pairs of an index
IndexPairs(idx) ==
    UNION { { << idx[i].normalized, f >> : f \in idx[i].forms } : i \in 1..Len(idx) }

\* every entry of the batch is in the index under its canonical key
AlreadyIndexed(idx, keywords) ==
    \A k \in 1..Len(keywords) :
        << normalize(keywords[k].text, TRUE), keywords[k].text >> \in IndexPairs(idx)

\* C11: the search index is additive and idempotent.  Over every step, each
\* (canonical key, surface form) pair of the index is still in the index; a
\* search call leaves the index unchanged; and indexing entries that are
\* already indexed leaves the index exactly as it is.
C11_IndexAdditiveIdempotent ==
    [][ /\ IndexPairs(keyword_index) \subseteq IndexPairs(keyword_index')
        /\ search_call' # search_call => keyword_index' = keyword_index
        /\ \A kws \in SeqsUpTo(IndexEntries, MaxIndexBatch) :
              AlreadyIndexed(keyword_index', kws)
                  => index_keywords(keyword_index', kws) = keyword_index' ]_vars

\* after several index_keywords calls the index holds every text, one key
\* holds two surface forms, and a search has been answered on it
C11_Witness ==
    /\ Cardinality(IndexPairs(keyword_index)) = Cardinality(IndexTexts)
    /\ \E i \in 1..Len(keyword_index) : Cardinality(keyword_index[i].forms) >= 2
    /\ search_call # NoCall
    /\ search_call.response.total_results > 0

(***************************************************************************)
(* XMLKeywordExtractor.extract_from_multiple                               *)
(* batch holds the locals of the call: xml_files, the loop index i and     *)
(* results (path -> keywords), with the progress callbacks made (progress) *)
(* and the paths extract_from_xml has been called on (extracted).  The     *)
(* progress callback returns normally.                                     *)
(***************************************************************************)
MultiLoopHead(b) ==
    IF b.i > Len(b.xml_files) THEN "multi_return"
    ELSE IF b.has_callback THEN "multi_callback"
    ELSE "multi_extract"

\* keywords = self.extract_from_xml(xml_file); results[xml_file] = keywords
extract_item(b) ==
    LET xml_file == b.xml_files[b.i]
        keywords == extract_from_xml(xml_file, TRUE, TRUE, FALSE)
        next == [b EXCEPT !.results = DictPut(@, xml_file, keywords),
                          !.extracted = Append(@, xml_file),
                          !.i = @ + 1]
    IN  [next EXCEPT !.pc = MultiLoopHead(next)]

\* the call extract_from_multiple(xml_files, progress_callback) has been entered
MultiStart(xml_files, has_callback) ==
    LET b == [op |-> "extract_from_multiple", pc |-> "start",
              xml_files |-> xml_files, has_callback |-> has_callback,
              i |-> 1, results |-> [x \in {} |-> <<>>], progress |-> <<>>,
              extracted |-> <<>>]
    IN  [b EXCEPT !.pc = MultiLoopHead(b)]

InitMulti ==
    /\ \E d \in DocDictionaries : NormalizerInit(d)
    /\ norm_call = NoCall
    /\ QueryIdle
    /\ SearchIdle
    /\ ConfIdle
    /\ files = BatchFiles
    /\ doc_call = NoCall
    /\ \E xml_files \in SeqsUpTo(DOMAIN BatchFiles, MaxBatch), has_callback \in BOOLEAN :
          batch = MultiStart(xml_files, has_callback)

\* progress_callback(i, total, xml_file)
MultiProgress ==
    /\ batch.pc = "multi_callback"
    /\ batch' = [batch EXCEPT !.progress = Append(@, progress_call(batch)),
                               !.pc = "multi_extract"]
    /\ UNCHANGED << normVars, queryVars, searchVars, confVars, files, doc_call >>

MultiExtract ==
    /\ batch.pc = "multi_extract"
    /\ batch' = extract_item(batch)
    /\ UNCHANGED << normVars, queryVars, searchVars, confVars, files, doc_call >>

\* return results
MultiReturn ==
    /\ batch.pc = "multi_return"
    /\ batch' = [op |-> batch.op, pc |-> "multi_returned",
                 xml_files |-> batch.xml_files,
                 has_callback |-> batch.has_callback, i |-> batch.i,
                 results |-> batch.results, progress |-> batch.progress,
                 extracted |-> batch.extracted, ret |-> batch.results]
    /\ UNCHANGED << normVars, queryVars, searchVars, confVars, files, doc_call >>

NextMulti ==
    \/ MultiProgress
    \/ MultiExtract
    \/ MultiReturn

SpecMulti == InitMulti /\ [][NextMulti]_vars

\* the extraction of the document at path fails: the file is missing or is
\* not well-formed XML
ExtractionFails(path) == files[path].kind # "xml"

\* C12: in the mapping extract_from_multiple returns, a document whose
\* extraction fails has no entry, and every document whose extraction
\* succeeds has an entry holding its keywords; all documents are processed.
C12_FailedDocumentsExcluded ==
    batch.pc = "multi_returned"
        => /\ batch.extracted = batch.xml_files
           /\ \A k \in 1..Len(batch.xml_files) :
                 LET path == batch.xml_files[k]
                 IN  IF ExtractionFails(path)
                     THEN path \notin DOMAIN batch.ret
                     ELSE /\ path \in DOMAIN batch.ret
                          /\ batch.ret[path] = extract_from_xml(path, TRUE, TRUE, FALSE)

(***************************************************************************)
(* Both batch operations                                                   *)
(***************************************************************************)
InitBatches == InitBatch \/ InitMulti

NextBatches == NextBatch \/ NextMulti

SpecBatches == InitBatches /\ [][NextBatches]_vars

\* the number of items the call has finished
ItemsFinished(b) ==
    IF "op" \in DOMAIN b THEN Len(b.extracted)
    ELSE Len(b.documents) + Len(b.errors)

BatchReturned(b) == b.pc \in { "returned", "multi_returned" }

\* C13: in analyze_batch and extract_from_multiple over n items with a
\* progress callback, the i-th invocation carries (i, n, path_i), in input
\* order; it is made when item i-1 has finished and item i has not (the
\* invocations made are as many as the items finished, or one more); and the
\* call returns after exactly n invocations, failing items included.
C13_ProgressCallbackPerItem ==
    (batch.pc # "idle" /\ batch.has_callback)
        => LET n == Len(batch.xml_files)
               made == Len(batch.progress)
               finished == ItemsFinished(batch)
           IN  /\ \A k \in 1..made : batch.progress[k] = << k, n, batch.xml_files[k] >>
               /\ made \in { finished, finished + 1 }
               /\ made <= n
               /\ BatchReturned(batch) => made = n /\ finished = n

\* analyze_batch has returned from three items, the first of which failed,
\* after three callbacks
C13_Witness ==
    /\ batch.pc = "returned"
    /\ batch.has_callback
    /\ Len(batch.xml_files) = 3
    /\ ~ AnalysisSucceeds(batch.xml_files[1])
    /\ AnalysisSucceeds(batch.xml_files[3])
    /\ Len(batch.progress) = 3
    /\ batch.progress[3] = << 3, 3, batch.xml_files[3] >>

(***************************************************************************)
(* Header fields of the records (parse_radiology_sample)                   *)
(***************************************************************************)
\* the text of the first child of e with that name, in namespace ns, when
\* there is one with a non-empty text; MISSING otherwise
TextOrMissing(e, ns, name) ==
    LET cs == { i \in 1..Len(e.kids) : e.kids[i].ns = ns /\ e.kids[i].name = name }
        first == e.kids[CHOOSE i \in cs : \A j \in cs : i <= j]
    IN  IF cs # {} /\ first.text # None /\ first.text # <<>>
        THEN first.text
        ELSE MISSING

\* the header element of a root, an element without children when the
\* root has no ResponseHeader
HeaderOrEmpty(root) ==
    IF HeaderChildren(root) = {} THEN NoElement ELSE FirstHeader(root)

ExpectedHeader(path) ==
    get_expected_attributes_for_case(detect_parse_case(path).value).header

\* C14: after parse_radiology_sample on a well-formed document, every record
\* has, for every field of the expected header set of the document's parse
\* case, the text of the header child when it is present and non-empty and
\* the sentinel MISSING otherwise; the call does not fail.
C14_ExpectedHeaderFieldsRecorded ==
    CalledOnXml("parse_radiology_sample")
        => /\ ~ doc_call.ret.raised
           /\ \A r \in 1..Len(doc_call.ret.value) :
                 \A f \in 1..Len(ExpectedHeader(XmlPath)) :
                    LET field == ExpectedHeader(XmlPath)[f]
                        record == doc_call.ret.value[r]
                    IN  /\ field \in DOMAIN record
                        /\ record[field]
                             = TextOrMissing(HeaderOrEmpty(CalledRoot), CalledRoot.ns, field)

(***************************************************************************)
(* Failures of parse_radiology_sample                                      *)
(***************************************************************************)
CalledOnKind(op, kind) ==
    /\ doc_call.done
    /\ doc_call.op = op
    /\ files[XmlPath].kind = kind

\* the message of a raised exception names the path
CarriesPath(ret, path) == \E i \in 1..Len(ret.msg) : ret.msg[i] = path

\* C15: for a path that exists but holds unparsable XML,
\* parse_radiology_sample raises a parse error that carries the file path,
\* and returns no records.
C15_MalformedCarriesPath ==
    CalledOnKind("parse_radiology_sample", "malformed")
        => /\ doc_call.ret.raised
           /\ doc_call.ret.exc = "ParseError"
           /\ CarriesPath(doc_call.ret, XmlPath)

\* C20: for a path at which no file exists, parse_radiology_sample raises
\* FileNotFoundError from its own test of the path, before any
\* classification or parsing is attempted, and returns no records.
C20_MissingFileNotFound ==
    CalledOnKind("parse_radiology_sample", "absent")
        => doc_call.ret = Raised("FileNotFoundError", << "File not found: ", XmlPath >>)

\* the parser has been called on a missing file and has raised
C20_Witness ==
    /\ CalledOnKind("parse_radiology_sample", "absent")
    /\ doc_call.ret.raised
    /\ doc_call.ret.exc = "FileNotFoundError"

(***************************************************************************)
(* Case identifiers for get_expected_attributes_for_case                   *)
(***************************************************************************)
MaxCaseNumber == 120

\* LIDC_Multi_Session_<n>, as detect_parse_case builds it
MultiSessionCase(n) == "LIDC_Multi_Session_" \o ToString(n)

CaseIdentifiers ==
    { "Complete_Attributes", "Core_Attributes_Only", "With_Reason_Partial",
      "LIDC_Single_Session", "Unknown", "Unknown_Case", "",
      "complete_attributes", "LIDC_Multi_Session_", "LIDC_Multi_Session" }
    \cup { MultiSessionCase(n) : n \in 0..MaxCaseNumber }

InitCase ==
    /\ NormIdle
    /\ QueryIdle
    /\ SearchIdle
    /\ ConfIdle
    /\ files = EmptyDict
    /\ batch = NoBatch
    /\ \E c \in CaseIdentifiers :
          doc_call = [done |-> FALSE, op |-> "get_expected_attributes_for_case",
                      parse_case |-> c]

GetExpectedAttributes ==
    /\ ~ doc_call.done
    /\ "parse_case" \in DOMAIN doc_call
    /\ doc_call' = [doc_call EXCEPT !.done = TRUE]
                   @@ [ret |-> Returned(get_expected_attributes_for_case(doc_call.parse_case))]
    /\ UNCHANGED << normVars, queryVars, searchVars, confVars, files, batch >>

NextCase == GetExpectedAttributes

SpecCase == InitCase /\ [][NextCase]_vars

\* the case identifier of a finished call is LIDC_Multi_Session_<n>
IsMultiSessionCase(c) == \E n \in 0..(MaxCaseNumber + 1) : c = MultiSessionCase(n)

\* C16: get_expected_attributes_for_case returns one and the same attribute
\* set for every case identifier LIDC_Multi_Session_<n>, the dynamically
\* numbered ones (n = 0, n > 4) included: the set it returns for
\* LIDC_Multi_Session_2.
C16_MultiSessionCasesShareOneSet ==
    (doc_call.done /\ "parse_case" \in DOMAIN doc_call
       /\ IsMultiSessionCase(doc_call.parse_case))
        => doc_call.ret
             = Returned(get_expected_attributes_for_case(MultiSessionCase(2)))

\* the keys of the static table
StaticCases ==
    { "Complete_Attributes", "Core_Attributes_Only", "With_Reason_Partial",
      "LIDC_Single_Session", "LIDC_Multi_Session_2", "LIDC_Multi_Session_3",
      "LIDC_Multi_Session_4" }

\* C19: for every case identifier that is not a key of the static table,
\* get_expected_attributes_for_case raises nothing and returns the minimal
\* default: header StudyInstanceUID and SeriesInstanceUID, no
\* characteristics, one roi field and one nodule field.
C19_UnknownCaseGetsDefault ==
    (doc_call.done /\ "parse_case" \in DOMAIN doc_call
       /\ doc_call.parse_case \notin StaticCases)
        => /\ ~ doc_call.ret.raised
           /\ doc_call.ret.value.header = << "StudyInstanceUID", "SeriesInstanceUID" >>
           /\ doc_call.ret.value.characteristics = <<>>
           /\ Len(doc_call.ret.value.roi) = 1
           /\ Len(doc_call.ret.value.nodule) = 1

\* the attributes of an identifier outside the table have been returned
C19_Witness ==
    /\ doc_call.done
    /\ "parse_case" \in DOMAIN doc_call
    /\ doc_call.parse_case = "Unknown_Case"
    /\ ~ doc_call.ret.raised
    /\ Len(doc_call.ret.value.header) = 2

(***************************************************************************)
(* KeywordNormalizer.detect_multi_word_terms                               *)
(* Positions are Python offsets: the first character is at 0.              *)
(***************************************************************************)
Digits == { "0", "1", "2", "3", "4", "5", "6", "7", "8", "9" }

\* c.isalnum()
isalnum(c) ==
    \/ c \in Digits
    \/ \E i \in 1..Len(UpperChars) : c = UpperChars[i] \/ c = LowerChars[i]

\* text.find(term, start)
str_find(text, term, start) ==
    LET at == { pos \in start..(Len(text) - Len(term)) :
                  SubSeq(text, pos + 1, pos + Len(term)) = term }
    IN  IF at = {} THEN -1 ELSE CHOOSE pos \in at : \A q \in at : pos <= q

\* the acceptance test with the right boundary left out
boundaries_ok_NoAfterTest(text_lower, term, pos) ==
    pos = 0 \/ ~ isalnum(text_lower[pos])

\* before_ok and after_ok
boundaries_ok(text_lower, term, pos) ==
    LET before_ok == pos = 0 \/ ~ isalnum(text_lower[pos])
        after_ok == \/ pos + Len(term) = Len(text_lower)
                    \/ ~ isalnum(text_lower[pos + Len(term) + 1])
    IN  before_ok /\ after_ok

\* the while loop over one term, from position start on
RECURSIVE TermOccurrences(_, _, _)
TermOccurrences(text_lower, term, start) ==
    LET pos == str_find(text_lower, term, start)
    IN  IF pos = -1 THEN <<>>
        ELSE (IF boundaries_ok(text_lower, term, pos)
              THEN << << term, pos, pos + Len(term) >> >>
              ELSE <<>>)
             \o TermOccurrences(text_lower, term, pos + 1)

\* sorted(self.multi_word_set, key=len, reverse=True): the orders of the set
\* with the longer terms first
SortedTerms(terms) ==
    { o \in Perms(terms) : \A i, j \in 1..Len(o) : i < j => Len(o[i]) >= Len(o[j]) }

\* detected.sort(key=lambda x: x[1]), a stable sort
RECURSIVE InsertByStart(_, _)
InsertByStart(sorted, hit) ==
    IF sorted = <<>> THEN << hit >>
    ELSE IF Head(sorted)[2] <= hit[2]
    THEN << Head(sorted) >> \o InsertByStart(Tail(sorted), hit)
    ELSE << hit >> \o sorted

RECURSIVE SortByStart(_)
SortByStart(hits) ==
    IF hits = <<>> THEN <<>>
    ELSE InsertByStart(SortByStart(SubSeq(hits, 1, Len(hits) - 1)), hits[Len(hits)])

RECURSIVE DetectedIn(_, _)
DetectedIn(text_lower, sorted_terms) ==
    IF sorted_terms = <<>> THEN <<>>
    ELSE TermOccurrences(text_lower, Head(sorted_terms), 0)
         \o DetectedIn(text_lower, Tail(sorted_terms))

\* detect_multi_word_terms(text): the lists it can return, one per order in
\* which terms of equal length are taken from the set
detect_multi_word_terms(text) ==
    { SortByStart(DetectedIn(Lower(text), o)) : o \in SortedTerms(multi_word_set) }

(***************************************************************************)
(* Bounded texts and phrase lists for detect_multi_word_terms              *)
(***************************************************************************)
MaxTextLen == 5
MaxPhrases == 2

TextChars == { "a", "B", " ", "1" }

Phrases == { << "a", " ", "a" >>, << "A", " ", "b" >>, << "b" >>, << "1", "a" >> }

\* the phrase lists of the dictionary: no phrase twice
PhraseLists ==
    { l \in SeqsUpTo(Phrases, MaxPhrases) :
        \A i, j \in 1..Len(l) : i < j => l[i] # l[j] }

GroundGlassOpacity == <<"g", "r", "o", "u", "n", "d", " ", "g", "l", "a", "s", "s", " ", "o", "p", "a", "c", "i", "t", "y">>

ExampleTexts == { <<"p", "a", "t", "i", "e", "n", "t", " ", "h", "a", "s", " ", "g", "r", "o", "u", "n", "d", " ", "g", "l", "a", "s", "s", " ", "o", "p", "a", "c", "i", "t", "y">>,
                  <<"s", "u", "b", "g", "r", "o", "u", "n", "d", " ", "g", "l", "a", "s", "s", " ", "o", "p", "a", "c", "i", "t", "y">> }

TermsDictionary(phrases) ==
    [synonyms |-> <<>>, abbreviations |-> <<>>, multi_word_terms |-> phrases]

InitTerms ==
    /\ \/ \E l \in PhraseLists, t \in SeqsUpTo(TextChars, MaxTextLen) :
             /\ NormalizerInit(TermsDictionary(l))
             /\ norm_call = [done |-> FALSE, text |-> t]
       \/ \E t \in ExampleTexts :
             /\ NormalizerInit(TermsDictionary(<< GroundGlassOpacity >>))
             /\ norm_call = [done |-> FALSE, text |-> t]
    /\ QueryIdle
    /\ SearchIdle
    /\ ConfIdle
    /\ DocIdle

DetectMultiWordTerms ==
    /\ ~ norm_call.done
    /\ "text" \in DOMAIN norm_call
    /\ \E detected \in detect_multi_word_terms(norm_call.text) :
          norm_call' = [done |-> TRUE, text |-> norm_call.text, ret |-> detected]
    /\ UNCHANGED << medical_terms, synonym_map, abbreviation_map, multi_word_set >>
    /\ UNCHANGED << queryVars, searchVars, confVars, docVars >>

NextTerms == DetectMultiWordTerms

SpecTerms == InitTerms /\ [][NextTerms]_vars

\* the character of text at offset pos is absent or not alphanumeric
Boundary(text, pos) ==
    pos < 0 \/ pos >= Len(text) \/ ~ isalnum(text[pos + 1])

\* the occurrences the claim admits: a dictionary phrase, matched without
\* regard to case, between two boundaries
BoundedOccurrences(text) ==
    LET phrases == medical_terms.multi_word_terms
        candidates ==
            UNION { { << Lower(phrases[i]), b, b + Len(phrases[i]) >> : b \in 0..Len(text) } :
                    i \in 1..Len(phrases) }
    IN  { hit \in candidates :
            /\ hit[3] <= Len(text)
            /\ Lower(SubSeq(text, hit[2] + 1, hit[3])) = hit[1]
            /\ Boundary(text, hit[2] - 1)
            /\ Boundary(text, hit[3]) }

DetectCalled == norm_call.done /\ "text" \in DOMAIN norm_call

\* C17: detect_multi_word_terms reports an occurrence of a dictionary
\* phrase, matched case-insensitively, exactly when the character before it
\* is absent or not alphanumeric and the character after it is absent or
\* not alphanumeric; each occurrence is reported once, as the triple of the
\* phrase, its start offset and its end offset.
C17_PhraseBetweenBoundaries ==
    DetectCalled
        => /\ { norm_call.ret[i] : i \in 1..Len(norm_call.ret) }
                = BoundedOccurrences(norm_call.text)
           /\ Len(norm_call.ret) = Cardinality(BoundedOccurrences(norm_call.text))

\* "patient has ground glass opacity" has given the one hit 12..32
C17_Witness ==
    /\ DetectCalled
    /\ norm_call.text = <<"p", "a", "t", "i", "e", "n", "t", " ", "h", "a", "s", " ", "g", "r", "o", "u", "n", "d", " ", "g", "l", "a", "s", "s", " ", "o", "p", "a", "c", "i", "t", "y">>
    /\ norm_call.ret = << << GroundGlassOpacity, 12, 32 >> >>

(***************************************************************************)
(* Calls of get_all_forms                                                  *)
(***************************************************************************)
InitForms ==
    /\ \E d \in Dictionaries : NormalizerInit(d)
    /\ \E t \in Words : norm_call = [done |-> FALSE, keyword |-> t]
    /\ QueryIdle
    /\ SearchIdle
    /\ ConfIdle
    /\ DocIdle

GetAllForms ==
    /\ ~ norm_call.done
    /\ "keyword" \in DOMAIN norm_call
    /\ norm_call' = [done |-> TRUE, keyword |-> norm_call.keyword,
                     ret |-> get_all_forms(norm_call.keyword)]
    /\ UNCHANGED << medical_terms, synonym_map, abbreviation_map, multi_word_set >>
    /\ UNCHANGED << queryVars, searchVars, confVars, docVars >>

NextForms == GetAllForms

SpecForms == InitForms /\ [][NextForms]_vars

FormsCalled == norm_call.done /\ "keyword" \in DOMAIN norm_call

\* C18: for every dictionary and every term t, get_all_forms(t) is not
\* empty and contains normalize(t).
C18_FormsContainNormalized ==
    FormsCalled
        => /\ norm_call.ret # {}
           /\ normalize(norm_call.keyword, TRUE) \in norm_call.ret

\* the forms of a term that is not its own normalized form have been
\* returned, the normalized form and a further surface form among them
C18_Witness ==
    /\ FormsCalled
    /\ Lower(norm_call.keyword) # normalize(norm_call.keyword, TRUE)
    /\ normalize(norm_call.keyword, TRUE) \in norm_call.ret
    /\ Cardinality(norm_call.ret) >= 2

(***************************************************************************)
(* Matching rule of search                                                 *)
(***************************************************************************)
\* the canonical keys that have at least one result in a response
ResultKeys(resp) ==
    { resp.results[i].normalized_form : i \in 1..Len(resp.results) }

\* the expanded term set a response reports
ExpandedSet(resp) ==
    { resp.expanded_query_terms[i] : i \in 1..Len(resp.expanded_query_terms) }

\* a search has returned, with the default threshold min_relevance = 0.0
DefaultSearchCalled ==
    /\ search_call # NoCall
    /\ search_call.min_relevance = DefaultMinRelevance

\* C21: in search, with E the expanded term set of the query, an indexed
\* canonical entry matches under operator AND if and only if every term of E
\* is a substring of the canonical key or of at least one stored surface
\* form, and under OR or SINGLE if and only if at least one term of E is.
C21_SearchMatchRule ==
    DefaultSearchCalled
    => LET resp == search_call.response
           E    == ExpandedSet(resp)
           op   == parse(search_call.query).operator
       IN  \A i \in 1..Len(keyword_index) :
              LET key   == keyword_index[i].normalized
                  forms == keyword_index[i].forms
                  Sub(t) == \/ Contains(key, t)
                            \/ \E f \in forms : Contains(f, t)
              IN  (key \in ResultKeys(resp))
                  <=> IF op = "AND" THEN \A t \in E : Sub(t)
                                    ELSE \E t \in E : Sub(t)

\* an AND search over several expanded terms where one entry matches only
\* through a stored surface form and another entry does not match
C21_Witness ==
    /\ DefaultSearchCalled
    /\ parse(search_call.query).operator = "AND"
    /\ Cardinality(ExpandedSet(search_call.response)) >= 2
    /\ \E i, j \in 1..Len(keyword_index) :
          /\ keyword_index[i].normalized \in ResultKeys(search_call.response)
          /\ \E t \in ExpandedSet(search_call.response) :
                ~ Contains(keyword_index[i].normalized, t)
          /\ keyword_index[j].normalized \notin ResultKeys(search_call.response)

(***************************************************************************)
(* Relevance of search results                                             *)
(***************************************************************************)
FracEq(a, b) == a.num * b.den = b.num * a.den

\* C22: the relevance of every search result is (number of expanded terms
\* counted as matching) / (size of the expanded term set): exactly 1 for every
\* result of an AND query, exactly 1/|E| for every result of an OR or SINGLE
\* query, and always greater than 0 and at most 1.
C22_RelevanceFraction ==
    search_call # NoCall
    => LET resp == search_call.response
           E    == ExpandedSet(resp)
           op   == parse(search_call.query).operator
       IN  \A i \in 1..Len(resp.results) :
              LET r == resp.results[i]
              IN  /\ FracEq(r.relevance_score,
                            Frac(Len(r.matched_query_terms), Cardinality(E)))
                  /\ op = "AND" => FracEq(r.relevance_score, Frac(1, 1))
                  /\ op \in {"OR", "SINGLE"}
                        => FracEq(r.relevance_score, Frac(1, Cardinality(E)))
                  /\ r.relevance_score.num > 0
                  /\ r.relevance_score.den > 0
                  /\ FracGeq(Frac(1, 1), r.relevance_score)

\* an OR search whose result entry is hit by two of the expanded terms and
\* still scores 1/|E| below 1
C22_Witness ==
    /\ search_call # NoCall
    /\ parse(search_call.query).operator = "OR"
    /\ \E i \in 1..Len(search_call.response.results) :
          LET r   == search_call.response.results[i]
              key == r.normalized_form
          IN  /\ ~ FracEq(r.relevance_score, Frac(1, 1))
              /\ \E s, t \in ExpandedSet(search_call.response) :
                    /\ s # t
                    /\ Contains(r.keyword_text, s) \/ Contains(key, s)
                    /\ Contains(r.keyword_text, t) \/ Contains(key, t)

(***************************************************************************)
(* The result list of search                                               *)
(***************************************************************************)
\* the relevance of an index entry under the matching rule, 0 when it does
\* not match
EntryRelevance(op, E, entry) ==
    LET Sub(t) == \/ Contains(entry.normalized, t)
                  \/ \E f \in entry.forms : Contains(f, t)
    IN  IF op = "AND"
        THEN (IF \A t \in E : Sub(t) THEN Frac(1, 1) ELSE Frac(0, 1))
        ELSE (IF \E t \in E : Sub(t) THEN Frac(1, Cardinality(E)) ELSE Frac(0, 1))

\* the (canonical key, surface form) pairs search has to report
ExpectedPairs(idx, op, E, min_relevance) ==
    UNION { { << idx[i].normalized, f >> : f \in idx[i].forms } :
            i \in { j \in 1..Len(idx) :
                      LET rel == EntryRelevance(op, E, idx[j])
                      IN  rel.num > 0 /\ FracGeq(rel, min_relevance) } }

\* C23: search returns exactly one result per stored surface form of each
\* matching canonical entry whose relevance is at least minRelevance and no
\* result for any other entry; the results are in non-increasing order of
\* relevance and total_results equals the number of results.
C23_OneResultPerSurfaceForm ==
    search_call # NoCall
    => LET resp == search_call.response
           rs   == resp.results
           E    == ExpandedSet(resp)
           op   == parse(search_call.query).operator
           want == ExpectedPairs(keyword_index, op, E, search_call.min_relevance)
       IN  /\ { << rs[i].normalized_form, rs[i].keyword_text >> : i \in 1..Len(rs) }
                 = want
           /\ Len(rs) = Cardinality(want)
           /\ \A i, j \in 1..Len(rs) :
                 i < j => FracGeq(rs[i].relevance_score, rs[j].relevance_score)
           /\ resp.total_results = Len(rs)

\* a search with a positive threshold that reports both stored surface forms
\* of one entry and nothing for another entry of the index
C23_Witness ==
    /\ search_call # NoCall
    /\ search_call.min_relevance # DefaultMinRelevance
    /\ \E i, j \in 1..Len(keyword_index) :
          /\ Cardinality(keyword_index[i].forms) >= 2
          /\ keyword_index[i].normalized \in ResultKeys(search_call.response)
          /\ keyword_index[j].normalized \notin ResultKeys(search_call.response)

\* a search where an entry matches and is dropped for scoring below the
\* threshold
DroppedBelowThreshold ==
    /\ search_call # NoCall
    /\ \E j \in 1..Len(keyword_index) :
          /\ keyword_index[j].normalized \notin ResultKeys(search_call.response)
          /\ EntryRelevance(parse(search_call.query).operator,
                            ExpandedSet(search_call.response),
                            keyword_index[j]).num > 0

(***************************************************************************)
(* One record per unblindedReadNodule element                              *)
(***************************************************************************)
\* the unblindedReadNodule elements in namespace ns anywhere under e, in
\* document order
RECURSIVE NodulesUnder(_, _)
NodulesUnder(e, ns) ==
    LET RECURSIVE From(_)
        From(i) == IF i > Len(e.kids) THEN <<>>
                   ELSE (IF IsNodule(e.kids[i], ns) THEN << e.kids[i] >> ELSE <<>>)
                        \o NodulesUnder(e.kids[i], ns)
                        \o From(i + 1)
    IN  From(1)

\* the number of roi children of a nodule element
RoiChildren(root, nodule_elem) ==
    Cardinality({ i \in 1..Len(nodule_elem.kids) :
                    nodule_elem.kids[i].ns = root.ns /\ nodule_elem.kids[i].name = "roi" })

\* C24: parse_radiology_sample returns exactly one record per
\* unblindedReadNodule element of the document (in the root's namespace, or
\* unqualified when the root has none), in document order, wherever under the
\* root the element occurs, including under a readingSession element.
C24_OneRecordPerNoduleElement ==
    (CalledOnXml("parse_radiology_sample") /\ ~ doc_call.ret.raised)
    => LET nodules == NodulesUnder(CalledRoot, CalledRoot.ns)
           records == doc_call.ret.value
       IN  /\ Len(records) = Len(nodules)
           /\ \A i \in 1..Len(records) :
                 records[i]["roi_count"] = RoiChildren(CalledRoot, nodules[i])

(***************************************************************************)
(* DATE and IDENTIFIER entities of an analyzed document                    *)
(***************************************************************************)
\* the first record of the analyzed document
FirstRecord == parse_radiology_sample(XmlPath).value[1]

\* the first record holds a value for the field: the field is recorded and
\* is not the MISSING sentinel
HasHeaderValue(field) ==
    /\ field \in DOMAIN FirstRecord
    /\ FirstRecord[field] # MISSING

\* the entities of a list that were read from one source field
EntitiesFrom(entities, field) ==
    { i \in 1..Len(entities) : entities[i].source_field = field }

Analyzed(populate_entities) ==
    /\ CalledOnXml("analyze_xml")
    /\ doc_call.populate_entities = populate_entities
    /\ ~ doc_call.ret.raised

\* C25: with populate_entities, analyze_xml emits exactly one DATE entity
\* when the document's first record has a service date value and none when
\* the service date is absent (not recorded, or recorded as the MISSING
\* sentinel), and likewise one IDENTIFIER entity for the study UID and one
\* for the series UID only when that identifier is present.
C25_EntitiesOnlyForPresentFields ==
    Analyzed(TRUE)
    => LET entities == doc_call.ret.value.entities
           One(present) == IF present THEN 1 ELSE 0
       IN  /\ Len(entities.dates) = One(HasHeaderValue("DateService"))
           /\ \A i \in 1..Len(entities.dates) :
                 entities.dates[i].entity_type = "DATE"
           /\ \A i \in 1..Len(entities.identifiers) :
                 entities.identifiers[i].entity_type = "IDENTIFIER"
           /\ Cardinality(EntitiesFrom(entities.identifiers, "StudyInstanceUID"))
                 = One(HasHeaderValue("StudyInstanceUID"))
           /\ Cardinality(EntitiesFrom(entities.identifiers, "SeriesInstanceUID"))
                 = One(HasHeaderValue("SeriesInstanceUID"))
           /\ Len(entities.identifiers)
                 = One(HasHeaderValue("StudyInstanceUID"))
                   + One(HasHeaderValue("SeriesInstanceUID"))

(***************************************************************************)
(* Nodule entries of an analyzed document                                  *)
(***************************************************************************)
\* the characteristic names a record holds a value for
RecordedCharacteristics(record) ==
    { AllCharacteristics[k] : k \in 1..Len(AllCharacteristics) } \cap DOMAIN record

\* C26: the canonical document returned by analyze_xml has exactly one nodule
\* entry per record that parse_radiology_sample produced, in the same order,
\* and each entry's nodule id and characteristics mapping equal the noduleID
\* and the characteristic name/value pairs extracted for that record.
C26_NoduleEntriesCarryRecordData ==
    (CalledOnXml("analyze_xml") /\ ~ doc_call.ret.raised)
    => LET records == parse_radiology_sample(XmlPath).value
           nodules == doc_call.ret.value.nodules
       IN  /\ Len(nodules) = Len(records)
           /\ \A i \in 1..Len(nodules) :
                 /\ "noduleID" \in DOMAIN records[i]
                       => nodules[i].nodule_id = records[i]["noduleID"]
                 /\ DOMAIN nodules[i].characteristics
                       = RecordedCharacteristics(records[i])
                 /\ \A c \in RecordedCharacteristics(records[i]) :
                       nodules[i].characteristics[c] = records[i][c]

(***************************************************************************)
(* Overlap of the reported occurrences                                     *)
(***************************************************************************)
\* two hits (term, start, end) share a character of the text
Overlap(a, b) == a[2] < b[3] /\ b[2] < a[3]

\* C27: for every dictionary phrase and every text, the occurrences of that
\* one phrase reported by detect_multi_word_terms do not overlap one another;
\* only hits of distinct terms may overlap.
C27_SameTermHitsDisjoint ==
    DetectCalled
    => \A i, j \in 1..Len(norm_call.ret) :
          (i < j /\ norm_call.ret[i][1] = norm_call.ret[j][1])
              => ~ Overlap(norm_call.ret[i], norm_call.ret[j])

\* hits of two distinct terms that overlap have been reported
DistinctTermsOverlap ==
    /\ DetectCalled
    /\ \E i, j \in 1..Len(norm_call.ret) :
          /\ norm_call.ret[i][1] # norm_call.ret[j][1]
          /\ Overlap(norm_call.ret[i], norm_call.ret[j])

(***************************************************************************)
(* Keys and surface forms of the search index                              *)
(***************************************************************************)
\* C28: after any sequence of index calls, every surface string s stored in
\* the search index under canonical key k satisfies normalize(s) = k, and no
\* key of the index has an empty set of surface forms.
C28_IndexKeysAreNormalForms ==
    \A i \in 1..Len(keyword_index) :
       /\ keyword_index[i].forms # {}
       /\ \A s \in keyword_index[i].forms :
             normalize(s, TRUE) = keyword_index[i].normalized

\* an index where a surface form is filed under a key that differs from its
\* lowercased text, next to a second key
C28_Witness ==
    /\ Len(keyword_index) >= 2
    /\ \E i \in 1..Len(keyword_index) :
          \E s \in keyword_index[i].forms :
             Lower(s) # keyword_index[i].normalized

(***************************************************************************)
(* Synonym expansion and the classes of normalize                          *)
(***************************************************************************)
\* C29: synonym expansion stays within one equivalence class: for every
\* dictionary, every term t and every form f in get_all_forms(t),
\* normalize(f) = normalize(t).
C29_FormsShareNormalForm ==
    FormsCalled
    => \A f \in norm_call.ret :
          normalize(f, TRUE) = normalize(norm_call.keyword, TRUE)

(***************************************************************************)
(* Terms of a parsed query                                                 *)
(***************************************************************************)
\* C30: for every query string, including the empty and the all-whitespace
\* query, QueryParser.parse returns a non-empty list of terms in which every
\* term is non-empty, lowercased and free of leading and trailing
\* whitespace, so that search never runs with an empty-string term.
C30_ParsedTermsNonEmpty ==
    (query_call.done /\ "arg" \in DOMAIN query_call)
    => LET terms == query_call.ret.terms
       IN  /\ terms # <<>>
           /\ \A i \in 1..Len(terms) :
                 /\ terms[i] # <<>>
                 /\ Lower(terms[i]) = terms[i]
                 /\ Strip(terms[i]) = terms[i]

\* a search for the empty query has run with the empty string as its only
\* expanded term and has reported every surface form of a non-empty index
EmptyQueryMatchesAll ==
    /\ search_call # NoCall
    /\ search_call.query = <<>>
    /\ ExpandedSet(search_call.response) = { <<>> }
    /\ Len(keyword_index) >= 2
    /\ ResultKeys(search_call.response) = IndexKeys(keyword_index)

====
